---- MODULE Spec2Model ----
(***************************************************************************)
(* A model of pyqt-enhanced-table: EnhancedTableWidget (filtering, sorting, *)
(* column management, persisted settings), NumericTableWidgetItem and the   *)
(* FilterPopup that produces the filter data the table stores.              *)
(*                                                                          *)
(* Text is a sequence of character codes, so that str.lower(), `in`,        *)
(* startswith and endswith are computed, not assumed.                       *)
(***************************************************************************)
EXTENDS Integers, Sequences, FiniteSets, TLC

VARIABLES
    user_id,            \* EnhancedTableWidget.user_id
    columns,            \* key -> the mutable fields of its ColumnConfig
    column_order,       \* the logical column order
    _active_filters,    \* column key -> filter data
    rows,               \* the table's rows: the cells' items and isRowHidden
    server_side_mode,   \* "unset" | "True" | "False"
    header,             \* the FilterableHeaderView
    _saved_header_state, \* the header state _load_settings read, if any
    store,              \* the QSettings store: settings key -> value
    log,                \* the signals emitted and settings written by the last operation
    popup,              \* the open FilterPopup, if any
    last,               \* the operation that ran last
    args,               \* the arguments of the function call under study
    ret,                \* and what it returned
    footer,             \* the TableFooter: its page fields and its buttons
    bar                 \* the ActiveFiltersBar attached by create_filters_bar, if any

vars == <<user_id, columns, column_order, _active_filters, rows, server_side_mode,
          header, _saved_header_state, store, log, popup, last, args, ret, footer, bar>>

widgetVars == <<user_id, columns, column_order, _active_filters, rows,
                server_side_mode, header, _saved_header_state, store, log, popup,
                footer, bar>>

-----------------------------------------------------------------------------
(* Bounds *)

\* longest generated text (cell text, filter text)
MaxLen == 2

\* most rows a generated table has
MaxRows == 2

\* most rows of a column that is sorted
MaxSortRows == 3

-----------------------------------------------------------------------------
(* Text *)

\* the characters generated texts are made of: "A", "a", "b"
Alphabet == {65, 97, 98}

\* str.lower() on one character (ASCII)
LowerChar(c) == IF c \in 65..90 THEN c + 32 ELSE c

\* str.lower()
lower(s) == [i \in 1..Len(s) |-> LowerChar(s[i])]

\* `t in s` for strings
contains(s, t) ==
    \E i \in 0..(Len(s) - Len(t)) : SubSeq(s, i + 1, i + Len(t)) = t

\* s.startswith(t)
startswith(s, t) == Len(t) <= Len(s) /\ SubSeq(s, 1, Len(t)) = t

\* s.endswith(t)
endswith(s, t) ==
    Len(t) <= Len(s) /\ SubSeq(s, Len(s) - Len(t) + 1, Len(s)) = t

\* all texts over the alphabet of length at most n
TextsUpTo(n) == UNION {[1..k -> Alphabet] : k \in 0..n}

\* the status values of the demo: "In Stock", "Low Stock", "Out of Stock", "N/A"
InStock == <<73, 110, 32, 83, 116, 111, 99, 107>>
LowStock == <<76, 111, 119, 32, 83, 116, 111, 99, 107>>
OutOfStock == <<79, 117, 116, 32, 111, 102, 32, 83, 116, 111, 99, 107>>
NotAvailable == <<78, 47, 65>>
DemoStatus == {InStock, LowStock, OutOfStock, NotAvailable}

\* "st" and "ST"
RuleSt == <<115, 116>>
RuleStUpper == <<83, 84>>

-----------------------------------------------------------------------------
(* EnhancedTableWidget._match_text_filter *)

\* the modes the filter popup offers
TEXT_FILTER_MODES == <<"contains", "equals", "starts_with", "ends_with", "not_contains">>

PopupModes == {TEXT_FILTER_MODES[i] : i \in 1..Len(TEXT_FILTER_MODES)}

\* the modes _match_text_filter knows, and one it does not
KnownModes == PopupModes \cup {"not_equals"}
AnyModes == KnownModes \cup {"regex"}

\* a plausible slip: the cell text is compared as it is, not lower-cased
MatchCaseSensitive(cell_text, text, mode) ==
    CASE mode = "contains" -> contains(cell_text, text)
      [] mode = "not_contains" -> ~contains(cell_text, text)
      [] mode = "equals" -> cell_text = text
      [] mode = "not_equals" -> cell_text # text
      [] mode = "starts_with" -> startswith(cell_text, text)
      [] mode = "ends_with" -> endswith(cell_text, text)
      [] OTHER -> TRUE

\* a plausible slip: a mode that is not known fails instead of passing
MatchUnknownFails(cell_text, text, mode) ==
    LET cell_lower == lower(cell_text)
    IN  CASE mode = "contains" -> contains(cell_lower, text)
          [] mode = "not_contains" -> ~contains(cell_lower, text)
          [] mode = "equals" -> cell_lower = text
          [] mode = "not_equals" -> cell_lower # text
          [] mode = "starts_with" -> startswith(cell_lower, text)
          [] mode = "ends_with" -> endswith(cell_lower, text)
          [] OTHER -> FALSE

_match_text_filter(cell_text, text, mode) ==
    LET cell_lower == lower(cell_text)
    IN  CASE mode = "contains" -> contains(cell_lower, text)
          [] mode = "not_contains" -> ~contains(cell_lower, text)
          [] mode = "equals" -> cell_lower = text
          [] mode = "not_equals" -> cell_lower # text
          [] mode = "starts_with" -> startswith(cell_lower, text)
          [] mode = "ends_with" -> endswith(cell_lower, text)
          [] OTHER -> TRUE

\* the text-rule test of one filter on one cell, as _apply_filters makes it:
\* text_filter is <<>> (no rule) or <<[mode, text]>>
TextRulePasses(cell_text, text_filter) ==
    IF text_filter = <<>> THEN TRUE
    ELSE LET mode == text_filter[1].mode
             text == lower(text_filter[1].text)
         IN  _match_text_filter(cell_text, text, mode)

-----------------------------------------------------------------------------
(* Items and NumericTableWidgetItem.__lt__ *)

\* A cell holds no item (kind "none"), a QTableWidgetItem (kind "text") or a
\* NumericTableWidgetItem (kind "numeric", with its numeric_value).  id is the
\* row identifier the host stores with the item.
NoItem == [kind |-> "none", text |-> <<>>, numeric_value |-> 0, id |-> 0]
TextItem(t, i) == [kind |-> "text", text |-> t, numeric_value |-> 0, id |-> i]
NumericItem(v, t, i) == [kind |-> "numeric", text |-> t, numeric_value |-> v, id |-> i]

\* a plausible slip: the text of a missing item is taken to be str(None)
CellTextOfNone(item) == IF item.kind = "none" THEN <<78, 111, 110, 101>> ELSE item.text

\* item.text() if item else ""
CellText(item) == IF item.kind = "none" THEN <<>> ELSE item.text

\* hasattr(other, "numeric_value")
HasNumericValue(item) == item.kind = "numeric"

\* s < t for strings: the first differing character decides, a proper prefix is less
TextLess(s, t) ==
    \E i \in 1..(Len(t)) :
        /\ i <= Len(s) + 1
        /\ SubSeq(s, 1, i - 1) = SubSeq(t, 1, i - 1)
        /\ (i = Len(s) + 1 \/ s[i] < t[i])

PyBool(b) == IF b THEN "True" ELSE "False"

\* QTableWidgetItem.__lt__: the display texts are compared
super__lt__(self, other) == PyBool(TextLess(self.text, other.text))

\* a plausible slip: two numeric items are compared by their display texts
LtByDisplayText(self, other) ==
    IF self.text = <<>> /\ other.text # <<>> THEN "True"
    ELSE IF self.text # <<>> /\ other.text = <<>> THEN "False"
    ELSE super__lt__(self, other)

\* a plausible slip: no hasattr guard, so an item without numeric_value raises
LtUnguarded(self, other) ==
    IF other.kind = "numeric"
    THEN PyBool(self.numeric_value < other.numeric_value)
    ELSE "AttributeError"

\* NumericTableWidgetItem.__lt__(self, other): "True", "False", or the exception raised
__lt__(self, other) ==
    IF HasNumericValue(other)
    THEN PyBool(self.numeric_value < other.numeric_value)
    ELSE IF self.text = <<>> /\ other.text # <<>> THEN "True"
    ELSE IF self.text # <<>> /\ other.text = <<>> THEN "False"
    ELSE super__lt__(self, other)

\* *a < *b as the sort evaluates it: the virtual operator< of a's class
itemLessThan(a, b) ==
    IF a.kind = "numeric" THEN __lt__(a, b) = "True" ELSE super__lt__(a, b) = "True"

\* the comparator of a sort in the given order (Qt: itemLessThan / itemGreaterThan)
Compare(order, a, b) == IF order = "asc" THEN itemLessThan(a, b) ELSE itemLessThan(b, a)

-----------------------------------------------------------------------------
(* QTableWidget.sortItems, as _on_header_clicked uses it *)

\* one step of a stable insertion sort: x goes before the first element of the
\* sorted sequence, or is moved back past every element it compares less than
RECURSIVE LinearInsert(_, _, _, _)
LinearInsert(sorted, x, order, col) ==
    IF sorted = <<>> THEN <<x>>
    ELSE LET prev == sorted[Len(sorted)]
         IN  IF Compare(order, x.cells[col], prev.cells[col])
             THEN Append(LinearInsert(SubSeq(sorted, 1, Len(sorted) - 1), x, order, col), prev)
             ELSE Append(sorted, x)

RECURSIVE StableSort(_, _, _)
StableSort(rs, order, col) ==
    IF rs = <<>> THEN <<>>
    ELSE LinearInsert(StableSort(SubSeq(rs, 1, Len(rs) - 1), order, col),
                      rs[Len(rs)], order, col)

\* the rs with an item in the column, in row order, and those without
RECURSIVE SelectRows(_, _, _)
SelectRows(rs, col, withItem) ==
    IF rs = <<>> THEN <<>>
    ELSE LET rest == SelectRows(SubSeq(rs, 1, Len(rs) - 1), col, withItem)
             r == rs[Len(rs)]
         IN  IF (r.cells[col].kind # "none") = withItem THEN Append(rest, r) ELSE rest

\* the model's sort(column, order): rs with an item are stably sorted, rs
\* without one follow
sortItems(rs, col, order) ==
    StableSort(SelectRows(rs, col, TRUE), order, col) \o SelectRows(rs, col, FALSE)

\* a plausible slip: the sort order of the header is ignored
HeaderClickedAscending(rs, logical_index, current_order) ==
    sortItems(sortItems(rs, logical_index, "asc"), logical_index, "asc")

\* _on_header_clicked: setSortingEnabled(True) sorts by the header's sort
\* indicator (the clicked section, current_order) and sortItems sorts again
_on_header_clicked(rs, logical_index, current_order) ==
    sortItems(sortItems(rs, logical_index, current_order), logical_index, current_order)

\* the sort order the header shows after a click on a section: the order flips
\* on the section that shows the indicator, another section starts ascending
FlippedOrder(hdr, section) ==
    IF hdr.sortSection = section
    THEN (IF hdr.sortOrder = "desc" THEN "asc" ELSE "desc")
    ELSE "asc"

-----------------------------------------------------------------------------
(* The table as constructed *)

TableId == "demo_inventory_table"

DefaultUser == 0
Users == {0, 1}

\* the declared columns, in declared order
DeclaredOrder == <<"name", "price">>
Keys == {DeclaredOrder[i] : i \in 1..Len(DeclaredOrder)}
Sections == 1..Len(DeclaredOrder)

\* ColumnConfig(key, title): width, visible and filterable keep their defaults
ColumnConfig(key) == [key |-> key, width |-> 100, visible |-> TRUE, filterable |-> TRUE]

DeclaredColumns == [k \in Keys |-> ColumnConfig(k)]

\* a new FilterableHeaderView on the table's model
NewHeader ==
    [hidden |-> [i \in Sections |-> FALSE],
     visual |-> [i \in Sections |-> i],
     size |-> [i \in Sections |-> 100],
     sortSection |-> 1,
     sortOrder |-> "desc",
     filterable |-> [i \in Sections |-> TRUE],
     active |-> [i \in {} |-> FALSE]]

\* a new TableFooter: page 1 of 1, and _setup_ui leaves both buttons enabled
TableFooter ==
    [_current_page |-> 1, _total_pages |-> 1, prev_enabled |-> TRUE, next_enabled |-> TRUE]

\* no ActiveFiltersBar is attached; chips are the keys of its _chips dict
NoBar == [attached |-> FALSE, pending |-> FALSE, chips |-> {}, visible |-> FALSE]

\* ActiveFiltersBar.__init__ as create_filters_bar leaves it: hidden, no chips,
\* and the sync_filters timer pending
NewBar == [attached |-> TRUE, pending |-> TRUE, chips |-> {}, visible |-> FALSE]

\* a plausible slip: the chips of the previous update are not cleared
UpdateFiltersKeepsChips(b, filters) ==
    [b EXCEPT !.chips = b.chips \cup DOMAIN filters,
              !.visible = Cardinality(DOMAIN filters) > 0]

\* ActiveFiltersBar.update_filters: one chip per key, shown when there is one
update_filters(b, filters) ==
    [b EXCEPT !.chips = DOMAIN filters, !.visible = Cardinality(DOMAIN filters) > 0]

\* the lambda connected to filter_changed, run for each emission of a handler
RECURSIVE Notified(_, _)
Notified(b, entries) ==
    IF entries = <<>> THEN b
    ELSE IF b.attached /\ entries[1].signal = "filter_changed"
    THEN Notified(update_filters(b, entries[1].filters[1]), Tail(entries))
    ELSE Notified(b, Tail(entries))

\* the popup when none is open
NoPopup ==
    [open |-> FALSE, column_key |-> "", all_values |-> {}, selected_values |-> {},
     text |-> <<>>, mode_index |-> 1]

\* a plausible slip: the settings key does not depend on the user
SharedSettingsKey(uid, suffix) == <<"table", TableId, DefaultUser, suffix>>

\* QSettings keys: f"table_{table_id}_{user_id}_{suffix}"
_get_settings_key(uid, suffix) == <<"table", TableId, uid, suffix>>

Suffixes == {"header_state", "columns", "filters"}
StoreKeys == {<<"table", TableId, u, sfx>> : u \in Users, sfx \in Suffixes}

\* a store that holds nothing: a value is <<>> (absent) or <<v>>
EmptyStore == [k \in StoreKeys |-> <<>>]

\* the widget as constructed on an empty store, holding the rows rs
WidgetLoaded(rs) ==
    /\ user_id = DefaultUser
    /\ columns = DeclaredColumns
    /\ column_order = DeclaredOrder
    /\ _active_filters = [k \in {} |-> 0]
    /\ rows = rs
    /\ server_side_mode = "unset"
    /\ header = NewHeader
    /\ _saved_header_state = <<>>
    /\ store = EmptyStore
    /\ log = <<>>
    /\ popup = NoPopup
    /\ footer = TableFooter
    /\ bar = NoBar

WidgetIdle == WidgetLoaded(<<>>)

-----------------------------------------------------------------------------
(* The text-rule test, studied on generated cell texts and rules *)

MatchCells == TextsUpTo(MaxLen) \cup DemoStatus
MatchRules == TextsUpTo(MaxLen) \cup {RuleSt, RuleStUpper}

MatchInit ==
    /\ WidgetIdle
    /\ last = "init"
    /\ args \in [cell_text : MatchCells, text : MatchRules, mode : AnyModes]
    /\ ret = <<>>

\* _apply_filters, lines 338-344, on one cell
MatchTextRule ==
    /\ ret = <<>>
    /\ ret' = <<TextRulePasses(args.cell_text, <<[mode |-> args.mode, text |-> args.text]>>)>>
    /\ last' = "match_text_filter"
    /\ UNCHANGED <<widgetVars, args>>

MatchNext == MatchTextRule

MatchSpec == MatchInit /\ [][MatchNext]_vars

-----------------------------------------------------------------------------
(* NumericTableWidgetItem.__lt__, studied on generated pairs of items *)

NumericValues == {2, 10}

\* str(value) for the numeric values: "2", "10"
str(v) == IF v = 2 THEN <<50>> ELSE <<49, 48>>

\* NumericTableWidgetItem(value) and NumericTableWidgetItem(value, display_text)
NumericItems(id) ==
    {NumericItem(v, str(v), id) : v \in NumericValues}
        \cup {NumericItem(v, t, id) : v \in NumericValues, t \in TextsUpTo(MaxLen)}

TextItems(id) == {TextItem(t, id) : t \in TextsUpTo(MaxLen) \cup {str(v) : v \in NumericValues}}

CompareInit ==
    /\ WidgetIdle
    /\ last = "init"
    /\ args \in [self : NumericItems(1), other : NumericItems(2) \cup TextItems(2)]
    /\ ret = <<>>

CompareItems ==
    /\ ret = <<>>
    /\ ret' = <<__lt__(args.self, args.other)>>
    /\ last' = "lt"
    /\ UNCHANGED <<widgetVars, args>>

CompareNext == CompareItems

CompareSpec == CompareInit /\ [][CompareNext]_vars

-----------------------------------------------------------------------------
(* Sorting by a header click, studied on generated tables *)

\* the texts of the name column: "", "a", "b"
SortNames == {<<>>, <<97>>, <<98>>}

\* row i of a generated table: a text item and a numeric item
SortRowsOf(i) ==
    {[cells |-> <<TextItem(t, i), NumericItem(v, str(v), i)>>, hidden |-> FALSE] :
        t \in SortNames, v \in NumericValues}

RECURSIVE SortTablesOf(_)
SortTablesOf(n) ==
    IF n = 0 THEN {<<>>}
    ELSE {Append(t, r) : t \in SortTablesOf(n - 1), r \in SortRowsOf(n)}

SortTables == UNION {SortTablesOf(n) : n \in 1..MaxSortRows}

SortInit ==
    /\ \E t \in SortTables : WidgetLoaded(t)
    /\ last = "init"
    /\ args = <<>>
    /\ ret = <<>>

\* a click on a header section: the header flips its sort indicator, then
\* sectionClicked runs _on_header_clicked
HeaderClicked(section) ==
    LET current_order == FlippedOrder(header, section)
    IN  /\ rows' = _on_header_clicked(rows, section, current_order)
        /\ header' = [header EXCEPT !.sortSection = section, !.sortOrder = current_order]
        /\ last' = "header_clicked"
        /\ UNCHANGED <<user_id, columns, column_order, _active_filters,
                       server_side_mode, _saved_header_state, store, log, popup,
                       args, ret, footer, bar>>

SortNext == \E section \in Sections : HeaderClicked(section)

SortSpec == SortInit /\ [][SortNext]_vars

-----------------------------------------------------------------------------
(* Filtering: EnhancedTableWidget._apply_filters *)

\* Filter data is the dict the popup emits: column_key, selected_values,
\* all_selected and, when a text is typed, text_filter (here <<>> or <<rule>>).
\* all_selected is "True" or "False" (a bool), "str:true" or "str:false" (a
\* string read back from storage) or "absent" (no such key).
FilterData(key, selected, allsel, rule) ==
    [column_key |-> key, selected_values |-> selected, all_selected |-> allsel,
     text_filter |-> rule]

TextRule(mode, text) == <<[mode |-> mode, text |-> text]>>

\* bool(filter_data.get("all_selected")): None and False are false, a string is true
Truthy(v) == v \notin {"False", "absent"}

\* filter_data.get("all_selected", True), a string read as lower() == "true"
all_sel(filter_data) ==
    LET v == filter_data.all_selected
    IN  IF v = "absent" THEN TRUE
        ELSE IF v \in {"str:true", "str:false"} THEN v = "str:true"
        ELSE v = "True"

\* column_order.index(column_key), or -1
_get_table_index(column_key) ==
    IF \E i \in 1..Len(column_order) : column_order[i] = column_key
    THEN CHOOSE i \in 1..Len(column_order) :
            /\ column_order[i] = column_key
            /\ \A j \in 1..(i - 1) : column_order[j] # column_key
    ELSE -1

\* a plausible slip: the selected values are compared without regard to case
ValueMatchIgnoringCase(cell_text, allowed) ==
    \E val \in allowed : lower(val) = lower(cell_text)

\* the loop over allowed: some selected value equals the cell text
ValueMatch(cell_text, allowed) == \E val \in allowed : val = cell_text

\* a plausible slip: a filter hides a row only when both of its tests fail
FilterHidesWhenBothFail(row, col_key, filter_data) ==
    LET cell_text == CellText(row.cells[_get_table_index(col_key)])
    IN  /\ ~all_sel(filter_data)
        /\ ~ValueMatch(cell_text, filter_data.selected_values)
        /\ ~TextRulePasses(cell_text, filter_data.text_filter)

\* one pass of the loop over the active filters: does this filter hide the row
FilterHides(row, col_key, filter_data) ==
    LET cell_text == CellText(row.cells[_get_table_index(col_key)])
    IN  IF ~all_sel(filter_data) /\ ~ValueMatch(cell_text, filter_data.selected_values)
        THEN TRUE
        ELSE ~TextRulePasses(cell_text, filter_data.text_filter)

\* the loop over the active filters for one row: a filter of an unknown column
\* is skipped, the first filter that hides the row ends the loop
RECURSIVE VisibleOver(_, _, _)
VisibleOver(keys, row, filters) ==
    IF keys = {} THEN TRUE
    ELSE LET k == CHOOSE x \in keys : TRUE
         IN  IF k \notin DOMAIN columns \/ _get_table_index(k) = -1
             THEN VisibleOver(keys \ {k}, row, filters)
             ELSE IF FilterHides(row, k, filters[k]) THEN FALSE
             ELSE VisibleOver(keys \ {k}, row, filters)

\* log entries: a signal emitted, or a settings key written
Entry(signal, visible, total, filters, key) ==
    [signal |-> signal, visible |-> visible, total |-> total, filters |-> filters,
     key |-> key]
rows_filtered(visible, total) == Entry("rows_filtered", visible, total, <<>>, "")
filter_changed(filters) == Entry("filter_changed", 0, 0, <<filters>>, "")
settings_changed == Entry("settings_changed", 0, 0, <<>>, "")
setValue(suffix) == Entry("setValue", 0, 0, <<>>, suffix)

\* _apply_filters: the rows and the signal it leaves
_apply_filters(rs, filters, ssm) ==
    IF ssm = "True"
    THEN [rows |-> rs, log |-> <<rows_filtered(Len(rs), Len(rs))>>]
    ELSE LET new == [r \in 1..Len(rs) |->
                        [rs[r] EXCEPT !.hidden = ~VisibleOver(DOMAIN filters, rs[r], filters)]]
             visible_count == Cardinality({r \in 1..Len(rs) : ~new[r].hidden})
         IN  [rows |-> new, log |-> <<rows_filtered(visible_count, Len(rs))>>]

-----------------------------------------------------------------------------
(* The header and the settings *)

\* a plausible slip: the visible keys are listed in logical order
VisibleInLogicalOrder(hdr) ==
    SelectSeq(column_order,
              LAMBDA c : \E i \in 1..Len(column_order) : column_order[i] = c /\ ~hdr.hidden[i])

\* get_visible_columns: the keys of the sections not hidden, in visual order
RECURSIVE VisibleFrom(_, _)
VisibleFrom(hdr, visual_idx) ==
    IF visual_idx > Len(hdr.visual) THEN <<>>
    ELSE LET logical_idx == hdr.visual[visual_idx]
         IN  IF ~hdr.hidden[logical_idx]
             THEN <<column_order[logical_idx]>> \o VisibleFrom(hdr, visual_idx + 1)
             ELSE VisibleFrom(hdr, visual_idx + 1)

get_visible_columns(hdr) == VisibleFrom(hdr, 1)

\* visible_columns.index(column_key), for a key that is in the list
IndexIn(seq, x) == CHOOSE i \in 1..Len(seq) : seq[i] = x /\ \A j \in 1..(i - 1) : seq[j] # x

InSeq(seq, x) == \E i \in 1..Len(seq) : seq[i] = x

\* FilterableHeaderView.set_filter_active
set_filter_active(hdr, section, active) ==
    [hdr EXCEPT !.active = (section :> active) @@ hdr.active]

\* FilterableHeaderView.is_filter_active
is_filter_active(hdr, section) ==
    IF section \in DOMAIN hdr.active THEN hdr.active[section] ELSE FALSE

\* FilterableHeaderView.clear_all_filter_indicators
clear_all_filter_indicators(hdr) == [hdr EXCEPT !.active = [i \in {} |-> FALSE]]

\* the indicator update of _on_filter_applied and _on_filter_cleared
MarkFilter(hdr, column_key, active) ==
    LET visible_columns == get_visible_columns(hdr)
    IN  IF InSeq(visible_columns, column_key)
        THEN set_filter_active(hdr, IndexIn(visible_columns, column_key), active)
        ELSE hdr

\* header.saveState(): what restoreState brings back
saveState(hdr) ==
    [hidden |-> hdr.hidden, visual |-> hdr.visual, size |-> hdr.size,
     sortSection |-> hdr.sortSection, sortOrder |-> hdr.sortOrder]

\* the col_settings dict _save_settings builds
col_settings(cols) == [k \in DOMAIN cols |-> [visible |-> cols[k].visible, width |-> cols[k].width]]

\* _save_settings: the store it leaves
_save_settings(st, uid, hdr, cols) ==
    [st EXCEPT ![_get_settings_key(uid, "header_state")] = <<saveState(hdr)>>,
               ![_get_settings_key(uid, "columns")] = <<col_settings(cols)>>]

\* what _save_settings writes and emits
SaveSettingsLog == <<setValue("header_state"), setValue("columns"), settings_changed>>

\* a plausible slip: the filters are not written
SkipSaveFilterSettings(st, uid, filters) == st

\* _save_filter_settings: the store it leaves
_save_filter_settings(st, uid, filters) ==
    [st EXCEPT ![_get_settings_key(uid, "filters")] = <<filters>>]

\* settings.value(key) is truthy: something non-empty is stored
HasValue(st, uid, suffix) ==
    LET v == st[_get_settings_key(uid, suffix)]
    IN  v # <<>> /\ (suffix # "header_state" => DOMAIN v[1] # {})

-----------------------------------------------------------------------------
(* FilterPopup *)

\* str.strip(): spaces are dropped from both ends
RECURSIVE lstrip(_)
lstrip(s) == IF s # <<>> /\ s[1] = 32 THEN lstrip(Tail(s)) ELSE s

RECURSIVE rstrip(_)
rstrip(s) ==
    IF s # <<>> /\ s[Len(s)] = 32 THEN rstrip(SubSeq(s, 1, Len(s) - 1)) ELSE s

strip(s) == rstrip(lstrip(s))

\* get_unique_values: the cell texts of a column, "" for a missing item
get_unique_values(column_key) ==
    LET col_idx == _get_table_index(column_key)
    IN  IF col_idx = -1 THEN {}
        ELSE {CellText(rows[r].cells[col_idx]) : r \in 1..Len(rows)}

\* the index of a mode in the combo box, 1 (the first item) when it has no such item
ModeIndex(mode) ==
    IF \E i \in 1..Len(TEXT_FILTER_MODES) : TEXT_FILTER_MODES[i] = mode
    THEN CHOOSE i \in 1..Len(TEXT_FILTER_MODES) : TEXT_FILTER_MODES[i] = mode
    ELSE 1

\* FilterPopup.__init__: set_unique_values, then _apply_current_filter;
\* current_filter is <<>> (None) or <<filter data>>
FilterPopup(column_key, unique_values, current_filter) ==
    LET p0 == [open |-> TRUE, column_key |-> column_key, all_values |-> unique_values,
               selected_values |-> unique_values, text |-> <<>>, mode_index |-> 1]
    IN  IF current_filter = <<>> THEN p0
        ELSE LET fd == current_filter[1]
                 p1 == [p0 EXCEPT !.selected_values = fd.selected_values]
             IN  IF fd.text_filter = <<>> THEN p1
                 ELSE [p1 EXCEPT !.text = fd.text_filter[1].text,
                                 !.mode_index = ModeIndex(fd.text_filter[1].mode)]

\* FilterPopup.get_filter_data
get_filter_data(p) ==
    LET text_filter == strip(p.text)
    IN  FilterData(p.column_key, p.selected_values,
                   PyBool(Cardinality(p.selected_values) = Cardinality(p.all_values)),
                   IF text_filter # <<>>
                   THEN TextRule(TEXT_FILTER_MODES[p.mode_index], text_filter)
                   ELSE <<>>)

-----------------------------------------------------------------------------
(* The filter handlers of EnhancedTableWidget *)

Without(f, k) == [x \in (DOMAIN f) \ {k} |-> f[x]]

NoFilters == [k \in {} |-> 0]

\* a plausible slip: filter_changed is emitted before the rows are filtered and
\* the filters are saved
FilterClearedEmitsFirst(column_key) ==
    LET filters == Without(_active_filters, column_key)
        applied == _apply_filters(rows, filters, server_side_mode)
    IN  [filters |-> filters,
         header |-> MarkFilter(header, column_key, FALSE),
         rows |-> applied.rows,
         store |-> _save_filter_settings(store, user_id, filters),
         log |-> <<filter_changed(filters)>> \o applied.log \o <<setValue("filters")>>]

\* _on_filter_cleared: what it leaves
_on_filter_cleared(column_key) ==
    LET filters == Without(_active_filters, column_key)
        applied == _apply_filters(rows, filters, server_side_mode)
    IN  [filters |-> filters,
         header |-> MarkFilter(header, column_key, FALSE),
         rows |-> applied.rows,
         store |-> _save_filter_settings(store, user_id, filters),
         log |-> applied.log \o <<setValue("filters"), filter_changed(filters)>>]

\* not filter_data.get("column_key"): the key is missing ("absent") or empty
NoKey(column_key) == column_key \in {"", "absent"}

\* a plausible slip: the data is stored whatever its column_key
FilterAppliedUnguarded(filter_data) ==
    LET column_key == filter_data.column_key
    IN  IF Truthy(filter_data.all_selected) /\ filter_data.text_filter = <<>>
        THEN _on_filter_cleared(column_key)
        ELSE LET filters == (column_key :> filter_data) @@ _active_filters
                 applied == _apply_filters(rows, filters, server_side_mode)
             IN  [filters |-> filters,
                  header |-> MarkFilter(header, column_key, TRUE),
                  rows |-> applied.rows,
                  store |-> _save_filter_settings(store, user_id, filters),
                  log |-> applied.log \o <<setValue("filters"), filter_changed(filters)>>]

\* a plausible slip: a filter with all values selected and no text is stored too
FilterAppliedAlwaysStores(filter_data) ==
    LET column_key == filter_data.column_key
        filters == (column_key :> filter_data) @@ _active_filters
        applied == _apply_filters(rows, filters, server_side_mode)
    IN  [filters |-> filters,
         header |-> MarkFilter(header, column_key, TRUE),
         rows |-> applied.rows,
         store |-> _save_filter_settings(store, user_id, filters),
         log |-> applied.log \o <<setValue("filters"), filter_changed(filters)>>]

\* _on_filter_applied: what it leaves
_on_filter_applied(filter_data) ==
    LET column_key == filter_data.column_key
    IN  IF NoKey(column_key)
        THEN [filters |-> _active_filters, header |-> header, rows |-> rows,
              store |-> store, log |-> <<>>]
        ELSE IF Truthy(filter_data.all_selected) /\ filter_data.text_filter = <<>>
        THEN _on_filter_cleared(column_key)
        ELSE LET filters == (column_key :> filter_data) @@ _active_filters
                 applied == _apply_filters(rows, filters, server_side_mode)
             IN  [filters |-> filters,
                  header |-> MarkFilter(header, column_key, TRUE),
                  rows |-> applied.rows,
                  store |-> _save_filter_settings(store, user_id, filters),
                  log |-> applied.log \o <<setValue("filters"), filter_changed(filters)>>]

\* which way _on_filter_applied went
AppliedPath(filter_data) ==
    IF NoKey(filter_data.column_key) THEN "filter_applied:ignored"
    ELSE IF Truthy(filter_data.all_selected) /\ filter_data.text_filter = <<>>
    THEN "filter_applied:cleared"
    ELSE "filter_applied"

\* clear_all_filters, lines 419-420: every row is shown
ShowAllRows(rs) == [r \in 1..Len(rs) |-> [rs[r] EXCEPT !.hidden = FALSE]]

\* the handler's result becomes the widget's state
Becomes(w) ==
    /\ _active_filters' = w.filters
    /\ header' = w.header
    /\ rows' = w.rows
    /\ store' = w.store
    /\ log' = w.log
    /\ bar' = Notified(bar, w.log)

\* a click on the filter icon of a section: _on_filter_icon_clicked; the header
\* reports the click for a section that is shown and filterable
FilterIconClicked(section) ==
    /\ ~popup.open
    /\ ~header.hidden[section]
    /\ header.filterable[section]
    /\ section >= 1 /\ section <= Len(column_order)
    /\ LET column_key == column_order[section]
           current_filter == IF column_key \in DOMAIN _active_filters
                             THEN <<_active_filters[column_key]>> ELSE <<>>
       IN  popup' = FilterPopup(column_key, get_unique_values(column_key), current_filter)
    /\ log' = <<>>
    /\ last' = "filter_icon_clicked"
    /\ UNCHANGED <<user_id, columns, column_order, _active_filters, rows,
                   server_side_mode, header, _saved_header_state, store, args, ret, footer, bar>>

PopupStep(p, name) ==
    /\ popup' = p
    /\ log' = <<>>
    /\ last' = name
    /\ UNCHANGED <<user_id, columns, column_order, _active_filters, rows,
                   server_side_mode, header, _saved_header_state, store, args, ret, footer, bar>>

\* FilterPopup._on_checkbox_changed: the user checks or unchecks a listed value
CheckboxChanged(value) ==
    /\ popup.open
    /\ value \in popup.all_values
    /\ PopupStep([popup EXCEPT !.selected_values =
                      IF value \in @ THEN @ \ {value} ELSE @ \cup {value}],
                 "checkbox_changed")

\* FilterPopup._select_all
SelectAll ==
    /\ popup.open
    /\ PopupStep([popup EXCEPT !.selected_values = popup.all_values], "select_all")

\* FilterPopup._clear_selection
ClearSelection ==
    /\ popup.open
    /\ PopupStep([popup EXCEPT !.selected_values = {}], "clear_selection")

\* the user types into text_filter_input
TextEdited(text) ==
    /\ popup.open
    /\ PopupStep([popup EXCEPT !.text = text], "text_edited")

\* the user picks an item of text_mode_combo
ModeSelected(i) ==
    /\ popup.open
    /\ PopupStep([popup EXCEPT !.mode_index = i], "mode_selected")

\* the popup is dismissed
PopupDismissed ==
    /\ popup.open
    /\ PopupStep(NoPopup, "popup_dismissed")

\* FilterPopup._on_apply: filter_applied runs _on_filter_applied
PopupApply ==
    /\ popup.open
    /\ Becomes(_on_filter_applied(get_filter_data(popup)))
    /\ popup' = NoPopup
    /\ last' = AppliedPath(get_filter_data(popup))
    /\ UNCHANGED <<user_id, columns, column_order, server_side_mode,
                   _saved_header_state, args, ret, footer>>

\* FilterPopup._on_reset: filter_cleared runs _on_filter_cleared(column_key)
PopupReset ==
    /\ popup.open
    /\ Becomes(_on_filter_cleared(popup.column_key))
    /\ popup' = NoPopup
    /\ last' = "filter_cleared"
    /\ UNCHANGED <<user_id, columns, column_order, server_side_mode,
                   _saved_header_state, args, ret, footer>>

\* a chip of the filters bar is removed: filter_removed runs _on_filter_cleared
FilterRemoved(column_key) ==
    /\ ~popup.open
    /\ column_key \in DOMAIN _active_filters
    /\ Becomes(_on_filter_cleared(column_key))
    /\ last' = "filter_cleared"
    /\ UNCHANGED <<user_id, columns, column_order, server_side_mode,
                   _saved_header_state, popup, args, ret, footer>>

\* clear_all_filters
ClearAllFilters ==
    /\ ~popup.open
    /\ _active_filters' = NoFilters
    /\ header' = clear_all_filter_indicators(header)
    /\ rows' = ShowAllRows(rows)
    /\ store' = _save_filter_settings(store, user_id, NoFilters)
    /\ log' = <<setValue("filters"), filter_changed(NoFilters)>>
    /\ bar' = Notified(bar, <<filter_changed(NoFilters)>>)
    /\ last' = "clear_all_filters"
    /\ UNCHANGED <<user_id, columns, column_order, server_side_mode,
                   _saved_header_state, popup, args, ret, footer>>

\* apply_saved_filters
ApplySavedFilters ==
    /\ ~popup.open
    /\ IF DOMAIN _active_filters # {}
       THEN LET applied == _apply_filters(rows, _active_filters, server_side_mode)
            IN  rows' = applied.rows /\ log' = applied.log
       ELSE rows' = rows /\ log' = <<>>
    /\ last' = "apply_saved_filters"
    /\ UNCHANGED <<user_id, columns, column_order, _active_filters, server_side_mode,
                   header, _saved_header_state, store, popup, args, ret, footer, bar>>

\* set_server_side_mode
SetServerSideMode(enabled) ==
    /\ ~popup.open
    /\ server_side_mode' = PyBool(enabled)
    /\ log' = <<>>
    /\ last' = "set_server_side_mode"
    /\ UNCHANGED <<user_id, columns, column_order, _active_filters, rows, header,
                   _saved_header_state, store, popup, args, ret, footer, bar>>

-----------------------------------------------------------------------------
(* Column management and settings *)

\* header.restoreState(state)
restoreState(hdr, state) ==
    [hdr EXCEPT !.hidden = state.hidden, !.visual = state.visual, !.size = state.size,
                !.sortSection = state.sortSection, !.sortOrder = state.sortOrder]

\* a plausible slip: the saved col_settings are not read
LoadedColumnsDeclared(cols, st, uid) == cols

\* _load_settings, lines 546-551: the columns after the saved col_settings are read
LoadedColumns(cols, st, uid) ==
    IF HasValue(st, uid, "columns")
    THEN LET saved == st[_get_settings_key(uid, "columns")][1]
         IN  [k \in DOMAIN cols |->
                 IF k \in DOMAIN saved
                 THEN [cols[k] EXCEPT !.visible = saved[k].visible, !.width = saved[k].width]
                 ELSE cols[k]]
    ELSE cols

\* _load_settings, lines 553-555: _saved_header_state is set when a state is stored
LoadedHeaderState(old, st, uid) ==
    IF HasValue(st, uid, "header_state")
    THEN st[_get_settings_key(uid, "header_state")]
    ELSE old

\* _apply_column_settings: the widths are set, then the saved state is restored
_apply_column_settings(hdr, cols, saved) ==
    LET sized == [hdr EXCEPT !.size = [i \in DOMAIN hdr.size |-> cols[column_order[i]].width]]
    IN  IF saved # <<>> THEN restoreState(sized, saved[1]) ELSE sized

\* _load_filter_settings: the filters read, and their header indicators
LoadedFilters(st, uid) ==
    IF HasValue(st, uid, "filters") THEN st[_get_settings_key(uid, "filters")][1]
    ELSE NoFilters

RECURSIVE MarkLoaded(_, _, _)
MarkLoaded(hdr, keys, cols) ==
    IF keys = {} THEN hdr
    ELSE LET k == CHOOSE x \in keys : TRUE
         IN  IF k \in DOMAIN cols
             THEN MarkLoaded(set_filter_active(hdr, IndexIn(DeclaredOrder, k), TRUE),
                             keys \ {k}, cols)
             ELSE MarkLoaded(hdr, keys \ {k}, cols)

\* a new EnhancedTableWidget(table_id, columns, user_id) on the store: __init__
\* with the declared columns; _setup_table hides the columns that are not visible
\* on the header that _setup_filterable_header then replaces
ConstructWith(uid, declared) ==
    LET cols == LoadedColumns(declared, store, uid)
        saved == LoadedHeaderState(<<>>, store, uid)
        filters == LoadedFilters(store, uid)
        hdr == [NewHeader EXCEPT
                   !.filterable = [i \in Sections |-> cols[DeclaredOrder[i]].filterable]]
    IN  /\ user_id' = uid
        /\ columns' = cols
        /\ column_order' = DeclaredOrder
        /\ _saved_header_state' = saved
        /\ _active_filters' = filters
        /\ header' = MarkLoaded(_apply_column_settings(hdr, cols, saved), DOMAIN filters, cols)
        /\ rows' = <<>>
        /\ server_side_mode' = "unset"
        /\ popup' = NoPopup
        /\ log' = <<>>
        /\ bar' = NoBar
        /\ last' = "construct"
        /\ UNCHANGED <<store, args, ret, footer>>

\* the table of the declared columns name and price is constructed
Construct(uid) == ConstructWith(uid, DeclaredColumns)

\* the rows the host loads: "a" and "A" alternate in the name column, the first
\* row has a price item and the others none
Dataset ==
    [i \in 1..MaxRows |->
        [cells |-> <<TextItem(IF i % 2 = 1 THEN <<97>> ELSE <<65>>, i),
                     IF i = 1 THEN NumericItem(2, str(2), i) ELSE NoItem>>,
         hidden |-> FALSE]]

\* the host fills the new table: setRowCount and setItem
LoadData ==
    /\ rows = <<>>
    /\ ~popup.open
    /\ rows' = Dataset
    /\ log' = <<>>
    /\ last' = "load_data"
    /\ UNCHANGED <<user_id, columns, column_order, _active_filters, server_side_mode,
                   header, _saved_header_state, store, popup, args, ret, footer, bar>>

\* a plausible slip: a column that is hidden is taken out of column_order
ToggleColumnDropsKey(key, visible) ==
    /\ ~popup.open
    /\ LET cols == [columns EXCEPT ![key].visible = visible]
           logical_idx == IndexIn(column_order, key)
       IN  /\ columns' = cols
           /\ store' = _save_settings(store, user_id, header, cols)
           /\ header' = [header EXCEPT !.hidden[logical_idx] = ~visible]
    /\ column_order' = IF visible THEN column_order
                       ELSE SelectSeq(column_order, LAMBDA c : c # key)
    /\ log' = SaveSettingsLog
    /\ last' = "toggle_column"
    /\ UNCHANGED <<user_id, _active_filters, rows, server_side_mode,
                   _saved_header_state, popup, args, ret, footer, bar>>

\* _toggle_column(key, visible), from the header's column menu
ToggleColumn(key, visible) ==
    /\ ~popup.open
    /\ LET cols == [columns EXCEPT ![key].visible = visible]
           logical_idx == IndexIn(column_order, key)
       IN  /\ columns' = cols
           /\ store' = _save_settings(store, user_id, header, cols)
           /\ header' = [header EXCEPT
                            !.hidden[logical_idx] = ~visible,
                            !.filterable[logical_idx] =
                                IF visible THEN cols[key].filterable ELSE FALSE]
    /\ log' = SaveSettingsLog
    /\ last' = "toggle_column"
    /\ UNCHANGED <<user_id, column_order, _active_filters, rows, server_side_mode,
                   _saved_header_state, popup, args, ret, footer, bar>>

\* the section at visual position from is dragged to visual position to
MoveSection(visual, from, to) ==
    LET without == SubSeq(visual, 1, from - 1) \o SubSeq(visual, from + 1, Len(visual))
    IN  SubSeq(without, 1, to - 1) \o <<visual[from]>> \o SubSeq(without, to, Len(without))

\* the user drags a section: the header moves it, sectionMoved runs _on_section_moved
SectionMoved(from, to) ==
    /\ ~popup.open
    /\ from # to
    /\ ~header.hidden[header.visual[from]]
    /\ LET hdr == [header EXCEPT !.visual = MoveSection(header.visual, from, to)]
       IN  /\ header' = hdr
           /\ store' = _save_settings(store, user_id, hdr, columns)
    /\ log' = SaveSettingsLog
    /\ last' = "section_moved"
    /\ UNCHANGED <<user_id, columns, column_order, _active_filters, rows,
                   server_side_mode, _saved_header_state, popup, args, ret, footer, bar>>

\* the widths a user drags a section to
DragWidths == {100, 150}

\* the user resizes a section: sectionResized runs _on_section_resized
SectionResized(logical_idx, new_size) ==
    /\ ~popup.open
    /\ ~header.hidden[logical_idx]
    /\ header.size[logical_idx] # new_size
    /\ LET hdr == [header EXCEPT !.size[logical_idx] = new_size]
       IN  /\ header' = hdr
           /\ store' = _save_settings(store, user_id, hdr, columns)
    /\ log' = SaveSettingsLog
    /\ last' = "section_resized"
    /\ UNCHANGED <<user_id, columns, column_order, _active_filters, rows,
                   server_side_mode, _saved_header_state, popup, args, ret, footer, bar>>

\* set_user_id
SetUserId(uid) ==
    /\ ~popup.open
    /\ LET cols == LoadedColumns(columns, store, uid)
           saved == LoadedHeaderState(_saved_header_state, store, uid)
       IN  /\ user_id' = uid
           /\ columns' = cols
           /\ _saved_header_state' = saved
           /\ header' = _apply_column_settings(header, cols, saved)
    /\ log' = <<>>
    /\ last' = "set_user_id"
    /\ UNCHANGED <<column_order, _active_filters, rows, server_side_mode, store,
                   popup, args, ret, footer, bar>>

-----------------------------------------------------------------------------
(* The table in use: filtering *)

\* what the user types into the popup's text field: nothing, or " A"
PopupTexts == {<<>>, <<32, 65>>}

\* the combo item the user picks: not_contains (contains is the preset item)
PickedModes == {5}

Init ==
    /\ WidgetIdle
    /\ last = "construct"
    /\ args = <<>>
    /\ ret = <<>>

Next ==
    \/ LoadData
    \/ \E section \in Sections : FilterIconClicked(section)
    \/ \E value \in {<<>>, <<97>>, <<65>>, <<50>>} : CheckboxChanged(value)
    \/ SelectAll
    \/ ClearSelection
    \/ \E text \in PopupTexts : TextEdited(text)
    \/ \E i \in PickedModes : ModeSelected(i)
    \/ PopupDismissed
    \/ PopupApply
    \/ PopupReset
    \/ \E column_key \in Keys : FilterRemoved(column_key)
    \/ ClearAllFilters
    \/ ApplySavedFilters
    \/ \E enabled \in BOOLEAN : SetServerSideMode(enabled)
    \/ Construct(DefaultUser)

Spec == Init /\ [][Next]_vars

-----------------------------------------------------------------------------
(* The table in use: column management *)

LayoutNext ==
    \/ LoadData
    \/ \E key \in Keys : ToggleColumn(key, ~columns[key].visible)
    \/ \E from, to \in Sections : SectionMoved(from, to)
    \/ \E new_size \in DragWidths : SectionResized(1, new_size)
    \/ FilterIconClicked(1)
    \/ ClearSelection
    \/ PopupApply
    \/ PopupReset
    \/ ClearAllFilters
    \/ Construct(DefaultUser)

LayoutSpec == Init /\ [][LayoutNext]_vars

-----------------------------------------------------------------------------
(* A table constructed on persisted filters, then filled and filtered *)

\* the cells the host loads: names "", "a", "A"; a price item "b" or no item
FilterRowsOf(i) ==
    {[cells |-> <<TextItem(n, i), p>>, hidden |-> FALSE] :
        n \in {<<>>, <<97>>, <<65>>}, p \in {NoItem, TextItem(<<98>>, i)}}

RECURSIVE FilterTablesOf(_)
FilterTablesOf(n) ==
    IF n = 0 THEN {<<>>}
    ELSE {Append(t, r) : t \in FilterTablesOf(n - 1), r \in FilterRowsOf(n)}

FilterTables == UNION {FilterTablesOf(n) : n \in 1..MaxRows}

\* the filters a popup has produced for the name column: any selection, all of the
\* listed values or not, and no rule or a rule with the text "A"
NameFilters ==
    {FilterData("name", sel, allsel, rule) :
        sel \in SUBSET {<<97>>, <<65>>}, allsel \in {"True", "False"},
        rule \in {<<>>} \cup {TextRule(m, <<65>>) : m \in {"contains", "not_contains", "equals"}}}

\* and for the price column
PriceFilters ==
    {FilterData("price", {}, "False", <<>>),
     FilterData("price", {<<98>>}, "True", TextRule("starts_with", <<98>>))}

\* a filter that _on_filter_applied stores
Storable(filter_data) == ~(Truthy(filter_data.all_selected) /\ filter_data.text_filter = <<>>)

FilterMaps ==
    {f \in UNION {[ks -> NameFilters \cup PriceFilters] : ks \in SUBSET Keys} :
        \A k \in DOMAIN f : f[k].column_key = k /\ Storable(f[k])}

\* the rows A, B, C and "" with the values A and B selected
ExampleTable ==
    [i \in 1..4 |->
        [cells |-> <<TextItem(<<<<65>>, <<66>>, <<67>>, <<>>>>[i], i), NoItem>>,
         hidden |-> FALSE]]

ExampleFilters == "name" :> FilterData("name", {<<65>>, <<66>>}, "False", <<>>)

\* the widget constructed on a store that holds the filters, filled by the host
FilterInit ==
    \E t \in FilterTables \cup {ExampleTable} :
    \E f \in (IF t = ExampleTable THEN {ExampleFilters} ELSE FilterMaps) :
        /\ user_id = DefaultUser
        /\ columns = DeclaredColumns
        /\ column_order = DeclaredOrder
        /\ _active_filters = f
        /\ rows = t
        /\ server_side_mode = "unset"
        /\ header = MarkLoaded(NewHeader, DOMAIN f, DeclaredColumns)
        /\ _saved_header_state = <<>>
        /\ store = _save_filter_settings(EmptyStore, DefaultUser, f)
        /\ log = <<>>
        /\ popup = NoPopup
        /\ footer = TableFooter
        /\ bar = NoBar
        /\ last = "load_data"
        /\ args = <<>>
        /\ ret = <<>>

FilterNext ==
    \/ ApplySavedFilters
    \/ \E column_key \in Keys : FilterRemoved(column_key)
    \/ ClearAllFilters

FilterSpec == FilterInit /\ [][FilterNext]_vars

-----------------------------------------------------------------------------
(* Loading from a store whose values the widget did not write *)

\* a value settings.value(key) returns: its Python type, its truth value, and for
\* a dict its items
Stored(type, truthy, items) == [type |-> type, truthy |-> truthy, items |-> items]

\* an item of a stored dict: its Python type and, for a dict, the values under
\* "visible" and "width" ("absent" when the key is missing)
StoredEntry(type, visible, width) == [type |-> type, visible |-> visible, width |-> width]

NoItems == [k \in {} |-> 0]

\* nothing stored, and values that are not a dict
StoredNone == Stored("None", FALSE, NoItems)
StoredScalars ==
    {Stored("str", TRUE, NoItems), Stored("str", FALSE, NoItems),
     Stored("list", TRUE, NoItems), Stored("int", TRUE, NoItems)}

\* the items a stored columns dict can hold for a key
ColumnEntries ==
    {StoredEntry("dict", v, w) : v \in {"True", "False", "absent"}, w \in {<<100>>, <<150>>, <<>>}}
        \cup {StoredEntry("str", "absent", <<>>), StoredEntry("None", "absent", <<>>)}

StoredColumnDicts ==
    {Stored("dict", DOMAIN f # {}, f) : f \in UNION {[ks -> ColumnEntries] : ks \in SUBSET Keys}}

\* the items a stored filters dict can hold for a key: a filter, or a string
FilterEntries == {StoredEntry("dict", "absent", <<>>), StoredEntry("str", "absent", <<>>)}

StoredFilterDicts ==
    {Stored("dict", DOMAIN f # {}, f) : f \in UNION {[ks -> FilterEntries] : ks \in SUBSET Keys}}

\* what a call leaves: the exception raised ("no" for none) and the state
Outcome(raised, cols, filters_type, filter_keys) ==
    [raised |-> raised, columns |-> cols, filters_type |-> filters_type,
     filter_keys |-> filter_keys]

\* config.get("visible", True) and config.get("width", 100) for the items of a dict
AsColSettings(items) ==
    [k \in DOMAIN items |->
        [visible |-> items[k].visible # "False",
         width |-> IF items[k].width = <<>> THEN 100 ELSE items[k].width[1]]]

\* _load_settings, lines 546-551, on the value stored under the columns key:
\* stored.items() and config.get raise AttributeError on what is not a dict
_load_settings(cols, stored) ==
    IF ~stored.truthy THEN [raised |-> "no", columns |-> cols]
    ELSE IF stored.type # "dict" THEN [raised |-> "AttributeError", columns |-> cols]
    ELSE IF \E k \in DOMAIN stored.items :
                k \in DOMAIN cols /\ stored.items[k].type # "dict"
    THEN [raised |-> "AttributeError", columns |-> cols]
    ELSE [raised |-> "no",
          columns |-> LoadedColumns(cols,
                         [EmptyStore EXCEPT ![_get_settings_key(DefaultUser, "columns")] =
                             <<AsColSettings(stored.items)>>],
                         DefaultUser)]

\* _load_filter_settings on the value stored under the filters key: a truthy value
\* becomes _active_filters whatever its type, and the for loop raises TypeError on
\* a value that cannot be iterated
_load_filter_settings(saved_filters) ==
    IF ~saved_filters.truthy THEN [raised |-> "no", filters_type |-> "dict", filter_keys |-> {}]
    ELSE IF saved_filters.type = "int"
    THEN [raised |-> "TypeError", filters_type |-> "int", filter_keys |-> {}]
    ELSE [raised |-> "no", filters_type |-> saved_filters.type,
          filter_keys |-> DOMAIN saved_filters.items]

\* __init__ on the two stored values: _load_settings, then _load_filter_settings
LoadOutcome(stored, saved_filters) ==
    LET layout == _load_settings(DeclaredColumns, stored)
        filters == _load_filter_settings(saved_filters)
    IN  IF layout.raised # "no"
        THEN Outcome(layout.raised, DeclaredColumns, "dict", {})
        ELSE Outcome(filters.raised, layout.columns, filters.filters_type, filters.filter_keys)

LoadInit ==
    /\ WidgetIdle
    /\ last = "init"
    /\ args \in [stored_columns : {StoredNone} \cup StoredScalars \cup StoredColumnDicts,
                 saved_filters : {StoredNone} \cup StoredScalars \cup StoredFilterDicts]
    /\ ret = <<>>

\* EnhancedTableWidget(table_id, columns) is constructed on the stored values
LoadStored ==
    /\ ret = <<>>
    /\ ret' = <<LoadOutcome(args.stored_columns, args.saved_filters)>>
    /\ last' = "load_stored"
    /\ UNCHANGED <<widgetVars, args>>

LoadNext == LoadStored

LoadSpec == LoadInit /\ [][LoadNext]_vars

-----------------------------------------------------------------------------
(* Two users of one table *)

\* the columns the host declares: both visible, or price declared hidden
DeclaredChoices ==
    {DeclaredColumns, [DeclaredColumns EXCEPT !["price"].visible = FALSE]}

\* the table constructed with the declared columns on an empty store
UserInit ==
    /\ args \in [declared : DeclaredChoices]
    /\ user_id = DefaultUser
    /\ columns = args.declared
    /\ column_order = DeclaredOrder
    /\ _active_filters = NoFilters
    /\ rows = <<>>
    /\ server_side_mode = "unset"
    /\ header = NewHeader
    /\ _saved_header_state = <<>>
    /\ store = EmptyStore
    /\ log = <<>>
    /\ popup = NoPopup
    /\ footer = TableFooter
    /\ bar = NoBar
    /\ last = "construct"
    /\ ret = <<>>

UserNext ==
    \/ LoadData
    \/ ToggleColumn("price", ~columns["price"].visible)
    \/ SectionResized(1, 150)
    \/ \E uid \in Users : SetUserId(uid)
    \/ \E uid \in Users : ConstructWith(uid, args.declared)
    \/ FilterIconClicked(1)
    \/ ClearSelection
    \/ PopupApply

UserSpec == UserInit /\ [][UserNext]_vars

-----------------------------------------------------------------------------
(* Every kind of operation on one table: the first user arranges and filters,
   the second user looks at the table and sorts it *)

OrderNext ==
    \/ LoadData
    \/ HeaderClicked(1)
    \/ \E uid \in Users : SetUserId(uid)
    \/ Construct(DefaultUser)
    \/ user_id = DefaultUser /\ ToggleColumn("price", ~columns["price"].visible)
    \/ user_id = DefaultUser /\ SectionMoved(1, 2)
    \/ user_id = DefaultUser /\ SectionResized(1, 150)
    \/ user_id = DefaultUser /\ FilterIconClicked(1)
    \/ ClearSelection
    \/ PopupApply
    \/ PopupReset

OrderSpec == Init /\ [][OrderNext]_vars

-----------------------------------------------------------------------------
(* get_visible_columns on a table of several columns *)

\* the number of columns of the table
MaxColumns == 3

WideOrder == SubSeq(<<"name", "price", "stock", "status", "category">>, 1, MaxColumns)

WideSections == 1..MaxColumns

\* the table of MaxColumns columns as constructed on an empty store
WideInit ==
    /\ user_id = DefaultUser
    /\ columns = [k \in {WideOrder[i] : i \in WideSections} |-> ColumnConfig(k)]
    /\ column_order = WideOrder
    /\ _active_filters = NoFilters
    /\ rows = <<>>
    /\ server_side_mode = "unset"
    /\ header = [hidden |-> [i \in WideSections |-> FALSE],
                 visual |-> [i \in WideSections |-> i],
                 size |-> [i \in WideSections |-> 100],
                 sortSection |-> 1,
                 sortOrder |-> "desc",
                 filterable |-> [i \in WideSections |-> TRUE],
                 active |-> [i \in {} |-> FALSE]]
    /\ _saved_header_state = <<>>
    /\ store = EmptyStore
    /\ log = <<>>
    /\ popup = NoPopup
    /\ footer = TableFooter
    /\ bar = NoBar
    /\ last = "construct"
    /\ args = <<>>
    /\ ret = <<>>

\* the host calls get_visible_columns
GetVisibleColumns ==
    /\ ~popup.open
    /\ ret' = <<get_visible_columns(header)>>
    /\ last' = "get_visible_columns"
    /\ log' = <<>>
    /\ UNCHANGED <<user_id, columns, column_order, _active_filters, rows,
                   server_side_mode, header, _saved_header_state, store, popup, args,
                   footer, bar>>

VisibleNext ==
    \/ GetVisibleColumns
    \/ \E key \in DOMAIN columns : ToggleColumn(key, ~columns[key].visible)
    \/ \E from, to \in WideSections : SectionMoved(from, to)

VisibleSpec == WideInit /\ [][VisibleNext]_vars

-----------------------------------------------------------------------------
(* TableFooter: the pagination controls *)

\* the largest page number the host passes
MaxPages == 6

\* the current and total_pages arguments of update_pagination: any integers
PageArgs == (0 - 1)..MaxPages

next_page_clicked == Entry("next_page_clicked", 0, 0, <<>>, "")
prev_page_clicked == Entry("prev_page_clicked", 0, 0, <<>>, "")

\* update_pagination(current, total_pages)
update_pagination(current, total_pages) ==
    [_current_page |-> current,
     _total_pages |-> total_pages,
     prev_enabled |-> current > 1,
     next_enabled |-> current < total_pages]

UpdatePagination(current, total_pages) ==
    /\ footer' = update_pagination(current, total_pages)
    /\ log' = <<>>
    /\ last' = "update_pagination"
    /\ UNCHANGED <<user_id, columns, column_order, _active_filters, rows,
                   server_side_mode, header, _saved_header_state, store, popup,
                   args, ret, bar>>

\* a click on _next_btn: an enabled button emits clicked, which is connected to
\* next_page_clicked.emit
NextClicked ==
    /\ footer.next_enabled
    /\ log' = <<next_page_clicked>>
    /\ last' = "next_clicked"
    /\ UNCHANGED <<user_id, columns, column_order, _active_filters, rows,
                   server_side_mode, header, _saved_header_state, store, popup,
                   args, ret, footer, bar>>

\* a click on _prev_btn
PrevClicked ==
    /\ footer.prev_enabled
    /\ log' = <<prev_page_clicked>>
    /\ last' = "prev_clicked"
    /\ UNCHANGED <<user_id, columns, column_order, _active_filters, rows,
                   server_side_mode, header, _saved_header_state, store, popup,
                   args, ret, footer, bar>>

FooterNext ==
    \/ \E current, total_pages \in PageArgs : UpdatePagination(current, total_pages)
    \/ NextClicked
    \/ PrevClicked

FooterSpec == Init /\ [][FooterNext]_vars

-----------------------------------------------------------------------------
(* Copying the selection: EnhancedTableWidget._copy_selection *)

TAB == <<9>>
NEWLINE == <<10>>

\* sorted(list(set(...))): the members in ascending order
RECURSIVE sorted(_)
sorted(S) ==
    IF S = {} THEN <<>>
    ELSE LET m == CHOOSE x \in S : \A y \in S : x <= y
         IN  <<m>> \o sorted(S \ {m})

\* sep.join(parts)
RECURSIVE join(_, _)
join(sep, parts) ==
    IF parts = <<>> THEN <<>>
    ELSE IF Len(parts) = 1 THEN parts[1]
    ELSE parts[1] \o sep \o join(sep, Tail(parts))

\* index.data(DisplayRole), then str(val) if val is not None else ""
DisplayRole(rs, index) ==
    LET item == rs[index[1]].cells[index[2]]
    IN  IF item.kind = "none" THEN <<>> ELSE item.text

\* a plausible slip: every cell of the rectangle is copied, selected or not
CopyWholeRectangle(rs, selection) ==
    IF selection = {} THEN <<>>
    ELSE LET rws == sorted({index[1] : index \in selection})
             cls == sorted({index[2] : index \in selection})
             data == [r \in 1..Len(rws) |->
                        [c \in 1..Len(cls) |-> DisplayRole(rs, <<rws[r], cls[c]>>)]]
         IN  <<join(NEWLINE, [r \in 1..Len(rws) |-> join(TAB, data[r])])>>

\* _copy_selection: <<>> when it returns without touching the clipboard, else
\* <<tsv>>, the text it sets; selection is the set of selected <<row, column>>
_copy_selection(rs, selection) ==
    IF selection = {} THEN <<>>
    ELSE LET rws == sorted({index[1] : index \in selection})
             cls == sorted({index[2] : index \in selection})
             data == [r \in 1..Len(rws) |->
                        [c \in 1..Len(cls) |->
                            IF <<rws[r], cls[c]>> \in selection
                            THEN DisplayRole(rs, <<rws[r], cls[c]>>)
                            ELSE <<>>]]
         IN  <<join(NEWLINE, [r \in 1..Len(rws) |-> join(TAB, data[r])])>>

\* the cells the host loads: no item, "a", or the two-line text "b\nc\td"
CopyCells == {NoItem, TextItem(<<97>>, 0), TextItem(<<98, 10, 99, 9, 100>>, 0)}

CopyTables ==
    {[i \in 1..MaxRows |-> [cells |-> f[i], hidden |-> FALSE]] :
        f \in [1..MaxRows -> CopyCells \X CopyCells]}

\* a filled table and the cells the user has selected in it
CopyInit ==
    \E t \in CopyTables :
        /\ WidgetLoaded(t)
        /\ last = "init"
        /\ args \in [selection : SUBSET ((1..MaxRows) \X Sections)]
        /\ ret = <<>>

\* keyPressEvent with the Copy key sequence
CopySelection ==
    /\ last = "init"
    /\ ret' = _copy_selection(rows, args.selection)
    /\ last' = "copy_selection"
    /\ UNCHANGED <<widgetVars, args>>

CopyNext == CopySelection

CopySpec == CopyInit /\ [][CopyNext]_vars

-----------------------------------------------------------------------------
(* The table with an ActiveFiltersBar attached *)

\* create_filters_bar: the bar is connected and sync_filters is scheduled
CreateFiltersBar ==
    /\ ~bar.attached
    /\ bar' = NewBar
    /\ log' = <<>>
    /\ last' = "create_filters_bar"
    /\ UNCHANGED <<user_id, columns, column_order, _active_filters, rows,
                   server_side_mode, header, _saved_header_state, store, popup,
                   args, ret, footer>>

\* the timer of create_filters_bar fires: sync_filters
SyncFilters ==
    /\ bar.attached /\ bar.pending
    /\ ~popup.open
    /\ bar' = [(IF DOMAIN _active_filters # {}
                THEN update_filters(bar, _active_filters) ELSE bar)
               EXCEPT !.pending = FALSE]
    /\ log' = <<>>
    /\ last' = "sync_filters"
    /\ UNCHANGED <<user_id, columns, column_order, _active_filters, rows,
                   server_side_mode, header, _saved_header_state, store, popup,
                   args, ret, footer>>

\* the remove button of a chip of the shown bar is clicked: _on_chip_removed emits
\* filter_removed, which runs _on_filter_cleared
ChipRemoved(column_key) ==
    /\ bar.attached /\ bar.visible
    /\ column_key \in bar.chips
    /\ ~popup.open
    /\ Becomes(_on_filter_cleared(column_key))
    /\ last' = "chip_removed"
    /\ args' = [column_key |-> column_key]
    /\ UNCHANGED <<user_id, columns, column_order, server_side_mode,
                   _saved_header_state, popup, ret, footer>>

\* the clear-all button of the shown bar is clicked: clear_all_clicked runs
\* clear_all_filters
BarClearAll ==
    /\ bar.attached /\ bar.visible
    /\ ClearAllFilters

BarNext ==
    \/ LoadData
    \/ CreateFiltersBar
    \/ SyncFilters
    \/ \E column_key \in Keys : ChipRemoved(column_key)
    \/ BarClearAll
    \/ \E section \in Sections : FilterIconClicked(section)
    \/ ClearSelection
    \/ \E text \in PopupTexts : TextEdited(text)
    \/ PopupDismissed
    \/ PopupApply
    \/ PopupReset
    \/ \E enabled \in BOOLEAN : SetServerSideMode(enabled)
    \/ Construct(DefaultUser)

BarSpec == Init /\ [][BarNext]_vars

-----------------------------------------------------------------------------
(* The popup opened again on a column that has a filter *)

\* the filters the table holds for the name column when the popup is opened: any
\* selection of "a" and "A" (values the column may no longer hold), all of the
\* values or not, and no rule, a rule of the popup or a not_equals rule, which
\* _match_text_filter knows and a host or the store can supply
ReopenFilters ==
    {fd \in {FilterData("name", sel, allsel, rule) :
                sel \in SUBSET {<<97>>, <<65>>}, allsel \in {"True", "False"},
                rule \in {<<>>, TextRule("ends_with", <<97>>), TextRule("not_equals", <<97>>)}} :
        Storable(fd)}

\* the widget constructed on a store that holds such a filter, filled by the host
ReopenInit ==
    \E t \in FilterTables, fd \in ReopenFilters :
        LET f == "name" :> fd
        IN  /\ user_id = DefaultUser
            /\ columns = DeclaredColumns
            /\ column_order = DeclaredOrder
            /\ _active_filters = f
            /\ rows = t
            /\ server_side_mode = "unset"
            /\ header = MarkLoaded(NewHeader, DOMAIN f, DeclaredColumns)
            /\ _saved_header_state = <<>>
            /\ store = _save_filter_settings(EmptyStore, DefaultUser, f)
            /\ log = <<>>
            /\ popup = NoPopup
            /\ footer = TableFooter
            /\ bar = NoBar
            /\ last = "load_data"
            /\ args = <<>>
            /\ ret = <<>>

ReopenNext ==
    \/ FilterIconClicked(1)
    \/ \E value \in {<<>>, <<97>>, <<65>>} : CheckboxChanged(value)
    \/ PopupApply
    \/ PopupDismissed

ReopenSpec == ReopenInit /\ [][ReopenNext]_vars

-----------------------------------------------------------------------------
(* _row_matches_filters and get_backend_filters on filters that were persisted *)

\* not filter_data.get("all_selected", True): only the bool False is falsy; a
\* string read back from storage is truthy whatever it says
NotAllSelected(filter_data) == filter_data.all_selected = "False"

\* one pass of the loop of _row_matches_filters: does this filter reject the row
FilterRejects(row, col_key, filter_data) ==
    LET cell_text == CellText(row.cells[_get_table_index(col_key)])
    IN  IF NotAllSelected(filter_data) /\ cell_text \notin filter_data.selected_values
        THEN TRUE
        ELSE ~TextRulePasses(cell_text, filter_data.text_filter)

\* _row_matches_filters(row), for the row itself
_row_matches_filters(row) ==
    IF DOMAIN _active_filters = {} THEN TRUE
    ELSE \A col_key \in DOMAIN _active_filters :
            \/ col_key \notin DOMAIN columns
            \/ _get_table_index(col_key) = -1
            \/ ~FilterRejects(row, col_key, _active_filters[col_key])

\* get_backend_filters: per column, <<>> or <<selected_values>>, and the text rule
get_backend_filters ==
    LET col_filter(filter_data) ==
            [selected_values |-> IF NotAllSelected(filter_data)
                                 THEN <<filter_data.selected_values>> ELSE <<>>,
             text_match |-> filter_data.text_filter]
        kept == {k \in DOMAIN _active_filters :
                    \/ col_filter(_active_filters[k]).selected_values # <<>>
                    \/ col_filter(_active_filters[k]).text_match # <<>>}
    IN  [k \in kept |-> col_filter(_active_filters[k])]

\* the name filters a store can hand back: all_selected a bool, or the string
\* QSettings made of it
PersistedNameFilters ==
    {FilterData("name", sel, allsel, rule) :
        sel \in SUBSET {<<97>>, <<65>>},
        allsel \in {"True", "False", "str:true", "str:false"},
        rule \in {<<>>, TextRule("contains", <<65>>)}}

\* the widget constructed on a store that holds such a filter, or none, and filled
PersistedInit ==
    \E t \in FilterTables, f \in {NoFilters} \cup {"name" :> fd : fd \in PersistedNameFilters} :
        /\ user_id = DefaultUser
        /\ columns = DeclaredColumns
        /\ column_order = DeclaredOrder
        /\ _active_filters = f
        /\ rows = t
        /\ server_side_mode = "unset"
        /\ header = MarkLoaded(NewHeader, DOMAIN f, DeclaredColumns)
        /\ _saved_header_state = <<>>
        /\ store = _save_filter_settings(EmptyStore, DefaultUser, f)
        /\ log = <<>>
        /\ popup = NoPopup
        /\ footer = TableFooter
        /\ bar = NoBar
        /\ last = "load_data"
        /\ args = <<>>
        /\ ret = <<>>

\* _row_matches_filters(row) is called
RowMatchesFilters(row) ==
    /\ row \in 1..Len(rows)
    /\ ret' = <<_row_matches_filters(rows[row])>>
    /\ args' = [row |-> row]
    /\ last' = "row_matches_filters"
    /\ UNCHANGED widgetVars

\* get_backend_filters() is called
GetBackendFilters ==
    /\ ret' = <<get_backend_filters>>
    /\ args' = <<>>
    /\ last' = "get_backend_filters"
    /\ UNCHANGED widgetVars

PersistedNext ==
    \/ ApplySavedFilters
    \/ \E row \in 1..MaxRows : RowMatchesFilters(row)
    \/ GetBackendFilters

PersistedSpec == PersistedInit /\ [][PersistedNext]_vars

-----------------------------------------------------------------------------
(* filter_applied events whose data the popup did not build *)

\* the data of such an event: the column_key is missing, empty or "name"
EventData ==
    {FilterData(key, sel, allsel, rule) :
        key \in {"absent", "", "name"},
        sel \in {{<<97>>}},
        allsel \in {"True", "False"},
        rule \in {<<>>, TextRule("contains", <<65>>)}}

\* a filter_applied signal reaches _on_filter_applied
FilterApplied(filter_data) ==
    /\ ~popup.open
    /\ Becomes(_on_filter_applied(filter_data))
    /\ last' = AppliedPath(filter_data)
    /\ args' = [filter_data |-> filter_data]
    /\ UNCHANGED <<user_id, columns, column_order, server_side_mode,
                   _saved_header_state, popup, ret, footer>>

EventNext ==
    \/ ApplySavedFilters
    \/ \E filter_data \in EventData : FilterApplied(filter_data)
    \/ ClearAllFilters

EventSpec == ReopenInit /\ [][EventNext]_vars

-----------------------------------------------------------------------------
(* Properties *)

\* t occurs in c at some position
IsInfix(t, c) ==
    \E i \in 1..(Len(c) + 1) :
        \A k \in 1..Len(t) : i + k - 1 <= Len(c) /\ c[i + k - 1] = t[k]

IsPrefix(t, c) == Len(t) <= Len(c) /\ \A k \in 1..Len(t) : c[k] = t[k]

IsSuffix(t, c) ==
    Len(t) <= Len(c) /\ \A k \in 1..Len(t) : c[Len(c) - Len(t) + k] = t[k]

\* C3: the text-rule test compares the lower-cased cell text with the lower-cased
\* rule text: contains is substring, not_contains its negation, equals equality,
\* not_equals its negation, starts_with prefix, ends_with suffix; so the match
\* ignores case, and Contains "st" matches "In Stock", "Low Stock" and
\* "Out of Stock" and not "N/A".
C3_TextRuleTest ==
    last = "match_text_filter" =>
        LET c == lower(args.cell_text)
            t == lower(args.text)
            r == ret[1]
        IN  /\ args.mode = "contains" => r = IsInfix(t, c)
            /\ args.mode = "not_contains" => r = ~IsInfix(t, c)
            /\ args.mode = "equals" => r = (c = t)
            /\ args.mode = "not_equals" => r = (c # t)
            /\ args.mode = "starts_with" => r = IsPrefix(t, c)
            /\ args.mode = "ends_with" => r = IsSuffix(t, c)
            /\ (args.mode = "contains" /\ args.text \in {RuleSt, RuleStUpper}
                    /\ args.cell_text \in DemoStatus)
                => r = (args.cell_text # NotAvailable)

C3_Witness ==
    /\ last = "match_text_filter"
    /\ args.mode = "contains"
    /\ args.cell_text = InStock
    /\ args.text = RuleSt
    /\ ret = <<TRUE>>

\* the numeric keys of a column, top to bottom
ColumnKeys(rs, c) == [i \in 1..Len(rs) |-> rs[i].cells[c].numeric_value]

ColumnTexts(rs, c) == [i \in 1..Len(rs) |-> CellText(rs[i].cells[c])]

NumericColumn(rs, c) == \A i \in 1..Len(rs) : rs[i].cells[c].kind = "numeric"

TextColumn(rs, c) == \A i \in 1..Len(rs) : rs[i].cells[c].kind = "text"

Reverse(q) == [i \in 1..Len(q) |-> q[Len(q) + 1 - i]]

\* the row that holds the row identifier id
RowOf(rs, id) == CHOOSE i \in 1..Len(rs) : rs[i].cells[1].id = id

\* after a click sorted a numeric column, the keys run in the header's order
SortedByKey ==
    (last = "header_clicked" /\ NumericColumn(rows, header.sortSection)) =>
        LET k == ColumnKeys(rows, header.sortSection)
        IN  \A i, j \in 1..Len(rows) :
                i < j => IF header.sortOrder = "asc" THEN k[i] <= k[j] ELSE k[i] >= k[j]

\* the keys of a descending sort are those of the ascending sort, reversed
DescendingReversesKeys ==
    \A c \in Sections :
        NumericColumn(rows, c) =>
            ColumnKeys(_on_header_clicked(rows, c, "desc"), c)
                = Reverse(ColumnKeys(_on_header_clicked(rows, c, "asc"), c))

\* a click that sorts a numeric column keeps rows of equal key in their order
StableStep ==
    (last' = "header_clicked" /\ NumericColumn(rows, header'.sortSection)) =>
        LET c == header'.sortSection
        IN  /\ Len(rows') = Len(rows)
            /\ \A i, j \in 1..Len(rows) :
                  (i < j /\ rows[i].cells[c].numeric_value = rows[j].cells[c].numeric_value)
                      => RowOf(rows', rows[i].cells[1].id) < RowOf(rows', rows[j].cells[1].id)

\* C7: sorting a column whose items all carry a numeric sort key orders the rows
\* by that key, not by display text: ascending gives non-decreasing keys,
\* descending the reverse order of keys, and rows of equal key keep their
\* prior relative order.
C7_NumericSort == [](SortedByKey /\ DescendingReversesKeys) /\ [][StableStep]_vars

C7_Witness ==
    /\ last = "header_clicked"
    /\ header.sortSection = 2
    /\ header.sortOrder = "desc"
    /\ Len(rows) = 3
    /\ ColumnKeys(rows, 2) = <<10, 10, 2>>
    /\ ColumnTexts(rows, 1) = <<<<98>>, <<97>>, <<>>>>

\* C8, as claimed: after a text column is sorted, every row with an empty cell
\* precedes every row with a non-empty cell, in either sort direction.
C8_EmptyFirstInBothOrders ==
    (last = "header_clicked" /\ TextColumn(rows, header.sortSection)) =>
        LET t == ColumnTexts(rows, header.sortSection)
        IN  \A i, j \in 1..Len(rows) : (t[i] = <<>> /\ t[j] # <<>>) => i < j

\* C8, amended: the empty string is the least text, so after a text column is
\* sorted the rows with an empty cell precede the rows with a non-empty cell
\* in an ascending sort and follow them in a descending sort.
C8_EmptyIsLeast ==
    (last = "header_clicked" /\ TextColumn(rows, header.sortSection)) =>
        LET t == ColumnTexts(rows, header.sortSection)
        IN  \A i, j \in 1..Len(rows) :
                (t[i] = <<>> /\ t[j] # <<>>) =>
                    IF header.sortOrder = "asc" THEN i < j ELSE j < i

C8_Witness ==
    /\ last = "header_clicked"
    /\ header.sortSection = 1
    /\ header.sortOrder = "desc"
    /\ Len(rows) = 3
    /\ ColumnTexts(rows, 1) = <<<<98>>, <<97>>, <<>>>>

\* s sorts before t: decided by the first position where they differ, or by length
LexLess(s, t) ==
    LET m == IF Len(s) < Len(t) THEN Len(s) ELSE Len(t)
        d == {i \in 1..m : s[i] # t[i]}
    IN  IF d = {} THEN Len(s) < Len(t)
        ELSE LET i == CHOOSE x \in d : \A y \in d : x <= y IN s[i] < t[i]

\* C9: comparing a numeric item with an item that carries no numeric sort key
\* never fails: it returns a boolean, that of the empty-string special case or
\* else of the text comparison of the two display strings.
C9_FallbackToText ==
    (last = "lt" /\ args.other.kind # "numeric") =>
        LET s == args.self.text
            o == args.other.text
        IN  /\ ret[1] \in {"True", "False"}
            /\ ret[1] = (IF s = <<>> /\ o # <<>> THEN "True"
                         ELSE IF s # <<>> /\ o = <<>> THEN "False"
                         ELSE PyBool(LexLess(s, o)))

C9_Witness ==
    /\ last = "lt"
    /\ args.self.kind = "numeric"
    /\ args.other.kind = "text"
    /\ args.self.text = <<50>>
    /\ args.other.text = <<97>>
    /\ ret = <<"True">>

-----------------------------------------------------------------------------
\* the operations that end in a run of _apply_filters
RanApplyFilters ==
    \/ last \in {"filter_applied", "filter_cleared", "filter_applied:cleared"}
    \/ last = "apply_saved_filters" /\ DOMAIN _active_filters # {}

LocalMode == server_side_mode # "True"

\* the cell text of a row in the column of a key
TextAt(row, k) == CellText(row.cells[IndexIn(DeclaredOrder, k)])

\* the value-set test as the specification words it
PassesValueSet(cell_text, filter_data) ==
    filter_data.all_selected = "True" \/ cell_text \in filter_data.selected_values

\* the text-rule test as the specification words it
PassesTextRule(cell_text, filter_data) ==
    \/ filter_data.text_filter = <<>>
    \/ LET c == lower(cell_text)
           t == lower(filter_data.text_filter[1].text)
           mode == filter_data.text_filter[1].mode
       IN  \/ mode = "contains" /\ IsInfix(t, c)
           \/ mode = "not_contains" /\ ~IsInfix(t, c)
           \/ mode = "equals" /\ c = t
           \/ mode = "starts_with" /\ IsPrefix(t, c)
           \/ mode = "ends_with" /\ IsSuffix(t, c)

\* C1: after _apply_filters has run in local mode, a row is not hidden if and only
\* if for every active column filter its cell text passes the value-set test and
\* the text-rule test of that column.
C1_VisibleIffPassesAll ==
    (RanApplyFilters /\ LocalMode) =>
        \A r \in 1..Len(rows) :
            ~rows[r].hidden <=>
                \A k \in DOMAIN _active_filters :
                    /\ PassesValueSet(TextAt(rows[r], k), _active_filters[k])
                    /\ PassesTextRule(TextAt(rows[r], k), _active_filters[k])

\* filters on both columns have been applied: one row fails one test of one column
\* only and is hidden, another passes both tests of both columns and is shown
C1_Witness ==
    /\ RanApplyFilters /\ LocalMode
    /\ DOMAIN _active_filters = Keys
    /\ _active_filters["name"].all_selected = "False"
    /\ _active_filters["name"].text_filter # <<>>
    /\ \E r \in 1..Len(rows) : ~rows[r].hidden
    /\ \E r \in 1..Len(rows) :
        /\ rows[r].hidden
        /\ PassesValueSet(TextAt(rows[r], "name"), _active_filters["name"])
        /\ PassesTextRule(TextAt(rows[r], "name"), _active_filters["name"])
        /\ PassesValueSet(TextAt(rows[r], "price"), _active_filters["price"])
        /\ ~PassesTextRule(TextAt(rows[r], "price"), _active_filters["price"])

\* C2: with a restricted value set (all_selected false), a row stays visible only
\* if its cell text is exactly one of the selected values, and when that is the
\* only test in force, if and only if; upper and lower case differ; with A and B
\* selected and the cells A, B, C and "", exactly the rows A and B stay visible.
C2_ExactValueMatch ==
    (RanApplyFilters /\ LocalMode) =>
        /\ \A k \in DOMAIN _active_filters :
                _active_filters[k].all_selected = "False" =>
                    \A r \in 1..Len(rows) :
                        ~rows[r].hidden =>
                            TextAt(rows[r], k) \in _active_filters[k].selected_values
        /\ \A k \in DOMAIN _active_filters :
                (/\ DOMAIN _active_filters = {k}
                 /\ _active_filters[k].all_selected = "False"
                 /\ _active_filters[k].text_filter = <<>>) =>
                    \A r \in 1..Len(rows) :
                        ~rows[r].hidden <=>
                            TextAt(rows[r], k) \in _active_filters[k].selected_values
        /\ (_active_filters = ExampleFilters
                /\ [r \in 1..Len(rows) |-> TextAt(rows[r], "name")]
                        = <<<<65>>, <<66>>, <<67>>, <<>>>>)
            => [r \in 1..Len(rows) |-> rows[r].hidden] = <<FALSE, FALSE, TRUE, TRUE>>

\* the rows A, B, C and "" filtered to the values A and B
C2_Witness ==
    /\ RanApplyFilters /\ LocalMode
    /\ _active_filters = ExampleFilters
    /\ Len(rows) = 4
    /\ [r \in 1..4 |-> rows[r].hidden] = <<FALSE, FALSE, TRUE, TRUE>>

-----------------------------------------------------------------------------
\* a step of FilterPopup._on_apply when every listed value is checked and the text
\* field holds no text: the column of the popup has no entry afterwards
NoOpApplyClears ==
    (/\ popup.open
     /\ last' \in {"filter_applied", "filter_applied:cleared", "filter_applied:ignored"}
     /\ popup.selected_values = popup.all_values
     /\ \A i \in 1..Len(popup.text) : popup.text[i] = 32)
        => popup.column_key \notin DOMAIN _active_filters'

\* C4: in every reachable state no column key of the active-filter map is mapped
\* to a filter with all values selected and no text rule; applying such a filter
\* through _on_filter_applied removes the entry of the column instead of storing it.
C4_NoNoOpEntry ==
    /\ [](\A k \in DOMAIN _active_filters :
            ~(_active_filters[k].all_selected = "True"
                /\ _active_filters[k].text_filter = <<>>))
    /\ [][NoOpApplyClears]_vars

\* a filter with everything selected and no text has been applied to the name
\* column while the price column keeps its filter: name has no entry
C4_Witness ==
    /\ last = "filter_applied:cleared"
    /\ DOMAIN _active_filters = {"price"}
    /\ \E i \in 1..Len(log) :
        log[i].signal = "filter_changed" /\ DOMAIN log[i].filters[1] = {"price"}

\* the number of rows that are not hidden
VisibleRows == Cardinality({r \in 1..Len(rows) : ~rows[r].hidden})

\* C5: after clear_all_filters, or after _on_filter_cleared has removed the last
\* remaining column filter, the active-filter map is empty and no row is hidden.
C5_ClearedShowsAll ==
    (\/ last = "clear_all_filters"
     \/ last \in {"filter_cleared", "filter_applied:cleared"} /\ DOMAIN _active_filters = {})
        => /\ DOMAIN _active_filters = {}
           /\ VisibleRows = Len(rows)

\* C6: in server-side mode a run of _apply_filters emits rows_filtered with the
\* visible count and the total count both the number of loaded rows, and every
\* loaded row is in fact visible, also when a local filter hid rows before the
\* mode was enabled.
C6_ServerSideAllVisible ==
    (RanApplyFilters /\ server_side_mode = "True") =>
        /\ \E i \in 1..Len(log) : log[i] = rows_filtered(Len(rows), Len(rows))
        /\ VisibleRows = Len(rows)

\* the persisted visibility of a column: what a load for the current identity reads
PersistedVisible(k) ==
    LET v == store[<<"table", TableId, user_id, "columns">>]
    IN  IF v = <<>> THEN TRUE ELSE v[1][k].visible

\* the persisted filter map: what a load for the current identity reads
PersistedFilters ==
    LET v == store[<<"table", TableId, user_id, "filters">>]
    IN  IF v = <<>> THEN [k \in {} |-> 0] ELSE v[1]

LayoutOps == {"toggle_column", "section_moved", "section_resized"}

FilterOps == {"filter_applied", "filter_applied:cleared", "filter_cleared",
              "clear_all_filters"}

-----------------------------------------------------------------------------
\* a stored value that is not a dict, or a dict with an item that is not a dict
Corrupt(value) ==
    /\ value.truthy
    /\ \/ value.type # "dict"
       \/ \E k \in DOMAIN value.items : value.items[k].type # "dict"

\* C11: loading from a store that holds corrupt content under the table's keys (a
\* value that is not a map, a per-column entry that is not a map) raises no error
\* and yields the default state: the declared columns and no filters.
C11_CorruptLoadsDefaults ==
    (last = "load_stored" /\ (Corrupt(args.stored_columns) \/ Corrupt(args.saved_filters))) =>
        /\ ret[1].raised = "no"
        /\ ret[1].columns = DeclaredColumns
        /\ ret[1].filters_type = "dict" /\ ret[1].filter_keys = {}

-----------------------------------------------------------------------------
\* the store holds nothing under the keys of (table_id, uid)
NothingStored(uid) == \A suffix \in Suffixes : store[<<"table", TableId, uid, suffix>>] = <<>>

\* the part of the default layout that does not depend on the declared flags:
\* declared order and widths, no filters
DefaultOrderWidthsFilters ==
    /\ column_order = DeclaredOrder
    /\ header.visual = [i \in Sections |-> i]
    /\ \A i \in Sections :
        /\ columns[DeclaredOrder[i]].width = ColumnConfig(DeclaredOrder[i]).width
        /\ header.size[i] = ColumnConfig(DeclaredOrder[i]).width
    /\ DOMAIN _active_filters = {}

\* C12 as stated: when the store holds nothing for (tableId, userId), constructing
\* the table yields all columns visible, declared order and widths, no filters.
C12_DefaultsAllVisible ==
    (last = "construct" /\ NothingStored(user_id)) =>
        /\ \A k \in DOMAIN columns : columns[k].visible
        /\ DefaultOrderWidthsFilters

\* C12 amended: when the store holds nothing for (tableId, userId), constructing
\* the table yields every column with its declared visible flag (visible unless
\* declared hidden), declared order and widths, and no filters.
C12_DefaultsAsDeclared ==
    (last = "construct" /\ NothingStored(user_id)) =>
        /\ \A k \in DOMAIN columns : columns[k].visible = args.declared[k].visible
        /\ DefaultOrderWidthsFilters

\* the table is constructed for user 1, for whom nothing is stored, after user 0
\* has hidden a column, resized one and applied a filter
C12_Witness ==
    /\ last = "construct" /\ user_id = 1 /\ NothingStored(1)
    /\ store[<<"table", TableId, 0, "columns">>] # <<>>
    /\ ~store[<<"table", TableId, 0, "columns">>][1]["price"].visible
    /\ store[<<"table", TableId, 0, "header_state">>][1].size[1] = 150
    /\ store[<<"table", TableId, 0, "filters">>] # <<>>
    /\ args.declared["price"].visible

-----------------------------------------------------------------------------
\* a step that constructs a new table with the same identity and columns on what
\* the table before it has saved: visibility, widths and filters come back
RoundTripStep ==
    (last' = "construct" /\ user_id' = user_id) =>
        /\ \A k \in DOMAIN columns :
            /\ columns'[k].visible = columns[k].visible
            /\ columns'[k].width = columns[k].width
        /\ header'.size = header.size
        /\ _active_filters' = _active_filters

-----------------------------------------------------------------------------
\* C14: the logical column order never changes after construction: no operation
\* (visibility toggle, reorder, resize, filter apply or clear, sort, settings load,
\* user switch) modifies column_order, and a hidden column keeps its position.
C14_ColumnOrderFrame ==
    /\ [](/\ column_order = DeclaredOrder
          /\ \A i \in Sections : header.hidden[i] => column_order[i] = DeclaredOrder[i])
    /\ [][column_order' = column_order]_vars

\* after a sort, a filter, a resize, a move and a user switch, the hidden column
\* price is still at its position
C14_Witness ==
    /\ user_id = 1
    /\ header.hidden[2] /\ column_order[2] = "price"
    /\ header.visual # [i \in Sections |-> i]
    /\ header.size[1] = 150
    /\ header.sortOrder = "asc"
    /\ DOMAIN _active_filters # {}

-----------------------------------------------------------------------------
\* the visual position of a logical section
VisualPosition(logical_idx) == CHOOSE v \in DOMAIN header.visual : header.visual[v] = logical_idx

\* the logical index of a key
LogicalIndex(k) == CHOOSE i \in 1..Len(column_order) : column_order[i] = k

\* C15: get_visible_columns returns exactly the keys of the columns whose header
\* section is not hidden, each once, in visual order: hidden columns are skipped
\* and the remaining ones keep their relative visual order.
C15_VisibleInVisualOrder ==
    last = "get_visible_columns" =>
        LET r == ret[1]
        IN  /\ {r[p] : p \in 1..Len(r)} =
                    {column_order[i] : i \in {j \in 1..Len(column_order) : ~header.hidden[j]}}
            /\ \A p, q \in 1..Len(r) : p # q => r[p] # r[q]
            /\ \A p, q \in 1..Len(r) :
                    p < q => VisualPosition(LogicalIndex(r[p])) < VisualPosition(LogicalIndex(r[q]))

\* a column is hidden and the two shown ones stand in the reverse of their logical
\* order: the result lists them in visual order
C15_Witness ==
    /\ last = "get_visible_columns"
    /\ Len(ret[1]) = Len(column_order) - 1
    /\ Len(ret[1]) >= 2
    /\ LogicalIndex(ret[1][1]) > LogicalIndex(ret[1][2])

-----------------------------------------------------------------------------
\* C16: after any sequence of update_pagination calls with arbitrary current and
\* total_pages arguments the pagination state satisfies
\* 1 <= currentPage <= totalPages, with totalPages >= 1.
C16_PageWithinBounds ==
    /\ 1 <= footer._current_page
    /\ footer._current_page <= footer._total_pages
    /\ footer._total_pages >= 1

\* C17: on the last page no next-page request can be issued (the next control is
\* disabled and next_page_clicked is not emitted), on page 1 no previous-page
\* request can be issued, and a click never changes the page.
C17_NoRequestAtBoundary ==
    /\ [](/\ footer._current_page = footer._total_pages => ~footer.next_enabled
          /\ footer._current_page = 1 => ~footer.prev_enabled)
    /\ [][/\ next_page_clicked \in {log'[i] : i \in 1..Len(log')}
                => footer._current_page # footer._total_pages
          /\ prev_page_clicked \in {log'[i] : i \in 1..Len(log')}
                => footer._current_page # 1
          /\ last' \in {"next_clicked", "prev_clicked"}
                => footer'._current_page = footer._current_page]_vars

\* C18: a text rule whose mode is not one of the known modes always passes: for
\* every cell text and every rule text the test returns True, so the rule hides
\* no row.
C18_UnknownModePasses ==
    (last = "match_text_filter" /\ args.mode \notin KnownModes) => ret = <<TRUE>>

\* an unknown mode passes a cell that does not contain the rule text
C18_Witness ==
    /\ last = "match_text_filter"
    /\ args.mode = "regex"
    /\ args.cell_text = NotAvailable
    /\ args.text = RuleSt
    /\ ret = <<TRUE>>

\* the cell of a row in the column of a key holds no item
Missing(row, k) == row.cells[IndexIn(DeclaredOrder, k)].kind = "none"

\* the text a cell is filtered by when a missing item counts as the empty string
TextOrEmpty(row, k) ==
    IF Missing(row, k) THEN <<>> ELSE row.cells[IndexIn(DeclaredOrder, k)].text

\* C19: a missing cell item is treated as the empty string: after _apply_filters
\* has run in local mode a row is shown exactly when, with "" as the text of each
\* missing cell, it passes both tests of every active filter; and the unique
\* values handed to the popup of a column include "" when a row has no item there.
C19_MissingItemIsEmpty ==
    /\ (RanApplyFilters /\ LocalMode) =>
            \A r \in 1..Len(rows) :
                ~rows[r].hidden <=>
                    \A k \in DOMAIN _active_filters :
                        /\ PassesValueSet(TextOrEmpty(rows[r], k), _active_filters[k])
                        /\ PassesTextRule(TextOrEmpty(rows[r], k), _active_filters[k])
    /\ last = "filter_icon_clicked" =>
            /\ \A r \in 1..Len(rows) : Missing(rows[r], popup.column_key) => <<>> \in popup.all_values
            /\ \A v \in popup.all_values :
                    \E r \in 1..Len(rows) : TextOrEmpty(rows[r], popup.column_key) = v

\* the price filter admits only "": the row without a price item is shown and
\* the row with the price "2" is hidden
C19_Witness ==
    /\ RanApplyFilters /\ LocalMode
    /\ "price" \in DOMAIN _active_filters
    /\ _active_filters["price"].all_selected = "False"
    /\ _active_filters["price"].selected_values = {<<>>}
    /\ \E r \in 1..Len(rows) : Missing(rows[r], "price") /\ ~rows[r].hidden
    /\ \E r \in 1..Len(rows) : ~Missing(rows[r], "price") /\ rows[r].hidden

\* the row indexes and the column indexes of the selected cells
SelectedRows == {index[1] : index \in args.selection}
SelectedColumns == {index[2] : index \in args.selection}

\* the member of a set of indexes with i - 1 members below it
Nth(S, i) == CHOOSE x \in S : Cardinality({y \in S : y < x}) = i - 1

\* the field of a cell of the rectangle
Field(r, c) ==
    IF <<r, c>> \in args.selection /\ rows[r].cells[c].kind # "none"
    THEN rows[r].cells[c].text ELSE <<>>

\* how often a character occurs in a text
Occurrences(ch, text) == Cardinality({i \in 1..Len(text) : text[i] = ch})

\* no selected cell holds a tab or a newline in its text
PlainSelection ==
    \A index \in args.selection :
        Occurrences(9, Field(index[1], index[2])) + Occurrences(10, Field(index[1], index[2])) = 0

\* C20: copying a selection sets the clipboard to the lines of the selected row
\* indexes in ascending order, joined by newlines; each line is the fields of the
\* selected column indexes in ascending order, joined by tabs; the field of a cell
\* of the rectangle that is not selected or has no data is empty.  Nothing is
\* copied when nothing is selected.
C20_CopyIsSortedRectangle ==
    last = "copy_selection" =>
        IF args.selection = {} THEN ret = <<>>
        ELSE LET nr == Cardinality(SelectedRows)
                 nc == Cardinality(SelectedColumns)
                 line(i) == join(TAB, [j \in 1..nc |->
                                Field(Nth(SelectedRows, i), Nth(SelectedColumns, j))])
             IN  /\ ret = <<join(NEWLINE, [i \in 1..nr |-> line(i)])>>
                 /\ PlainSelection =>
                        /\ Occurrences(10, ret[1]) = nr - 1
                        /\ Occurrences(9, ret[1]) = nr * (nc - 1)

\* cells <<1, 2>> and <<2, 1>> are selected and hold "a": the text is
\* "\ta\na\t", with empty fields for the two cells that are not selected
C20_Witness ==
    /\ last = "copy_selection"
    /\ args.selection = {<<1, 2>>, <<2, 1>>}
    /\ rows[1].cells[1].kind # "none"
    /\ ret = <<<<9, 97, 10, 97, 9>>>>

\* the last operation emitted filter_changed
EmittedFilterChanged == \E i \in 1..Len(log) : log[i].signal = "filter_changed"

\* C21: after every filter_changed notification the attached ActiveFiltersBar has
\* exactly one chip per key of the active-filter map and is visible if and only if
\* the map is not empty; the remove button of a chip removes exactly that column's
\* filter, and the bar's clear-all removes every filter.
C21_BarTracksFilters ==
    /\ []((bar.attached /\ EmittedFilterChanged) =>
            /\ bar.chips = DOMAIN _active_filters
            /\ bar.visible <=> (DOMAIN _active_filters # {}))
    /\ [][/\ last' = "chip_removed" =>
                /\ args'.column_key \in DOMAIN _active_filters
                /\ DOMAIN _active_filters' = (DOMAIN _active_filters) \ {args'.column_key}
                /\ \A k \in DOMAIN _active_filters' : _active_filters'[k] = _active_filters[k]
          /\ (last' = "clear_all_filters" /\ bar.attached) =>
                DOMAIN _active_filters' = {}]_vars

\* filters on both columns were shown as two chips; the chip of name was removed
\* and the bar is left visible with the chip of price
C21_Witness ==
    /\ bar.attached
    /\ last = "chip_removed"
    /\ args = [column_key |-> "name"]
    /\ bar.chips = {"price"}
    /\ bar.visible
    /\ DOMAIN _active_filters = {"price"}

\* C22: the header reports a filter as active for logical section i if and only
\* if column_order[i] is a key of the active-filter map, after any sequence of
\* filter apply, clear and clear-all operations, column hides and column reorders.
C22_IndicatorsTrackFilters ==
    \A i \in 1..Len(column_order) :
        is_filter_active(header, i) <=> (column_order[i] \in DOMAIN _active_filters)

\* C23: the filter popup reports all_selected = true only when every value of the
\* column's value list is selected, also when it was opened with a filter whose
\* selected values include values that are no longer in the list.
C23_AllSelectedMeansAll ==
    (popup.open /\ get_filter_data(popup).all_selected = "True") =>
        popup.all_values \subseteq popup.selected_values

\* C24: opening the popup on a column that has an active filter and pressing Apply
\* without changing anything leaves that column's stored filter unchanged: same
\* selected values, same all_selected, same text-rule mode and text.
C24_ReapplyKeepsFilter ==
    [][(/\ last = "filter_icon_clicked"
        /\ popup.open
        /\ popup.column_key \in DOMAIN _active_filters
        /\ last' \in {"filter_applied", "filter_applied:cleared", "filter_applied:ignored"})
       => /\ popup.column_key \in DOMAIN _active_filters'
          /\ LET old == _active_filters[popup.column_key]
                 new == _active_filters'[popup.column_key]
             IN  /\ new.selected_values = old.selected_values
                 /\ new.all_selected = old.all_selected
                 /\ new.text_filter = old.text_filter]_vars

\* C25: _row_matches_filters(row) returns true if and only if _apply_filters
\* leaves that row visible, for every row and every active-filter map the table
\* can hold, including maps read back from storage with all_selected as a string.
C25_RowMatchAgreesWithApply ==
    last = "row_matches_filters" =>
        (ret[1] <=>
            ~_apply_filters(rows, _active_filters, server_side_mode).rows[args.row].hidden)

\* C26: get_backend_filters includes selected_values for a column exactly when
\* _apply_filters enforces the value-set test for it, for every stored filter,
\* including one read back with all_selected as the string 'false'.
C26_BackendAgreesWithApply ==
    last = "get_backend_filters" =>
        \A k \in DOMAIN _active_filters :
            (k \in DOMAIN ret[1] /\ ret[1][k].selected_values # <<>>)
                <=> ~all_sel(_active_filters[k])

\* what is persisted for the current identity under a suffix: <<>> or <<value>>
PersistedFor(suffix) == store[<<"table", TableId, user_id, suffix>>]

\* C27: after set_user_id(u) each column's visibility and width and the active
\* filters are what is persisted for (tableId, u) or, where nothing is persisted,
\* the declared defaults and no filters; they do not depend on the previous
\* user's state.
C27_UserIsolation ==
    last = "set_user_id" =>
        /\ \A k \in DOMAIN columns :
            /\ columns[k].visible = IF PersistedFor("columns") = <<>>
                                    THEN args.declared[k].visible
                                    ELSE PersistedFor("columns")[1][k].visible
            /\ columns[k].width = IF PersistedFor("columns") = <<>>
                                  THEN args.declared[k].width
                                  ELSE PersistedFor("columns")[1][k].width
        /\ _active_filters = IF PersistedFor("filters") = <<>>
                             THEN NoFilters ELSE PersistedFor("filters")[1]

\* C28: after construction and after any sequence of _toggle_column and
\* set_user_id calls, for every column key k at logical index i, columns[k].visible
\* is true if and only if header section i is not hidden.
C28_VisibleMatchesHeader ==
    \A i \in 1..Len(column_order) :
        columns[column_order[i]].visible <=> ~header.hidden[i]

\* the labels _on_filter_applied leaves
AppliedLabels == {"filter_applied", "filter_applied:cleared", "filter_applied:ignored"}

\* C29: a filter-applied event whose data has no column_key (missing or empty) is
\* ignored: the active-filter map, the hidden state of every row, the header
\* indicators and the persisted filters are unchanged, and neither filter_changed
\* nor rows_filtered is emitted.
C29_NoKeyIgnored ==
    [][(/\ last' \in AppliedLabels
        /\ "filter_data" \in DOMAIN args'
        /\ args'.filter_data.column_key \in {"", "absent"})
       => /\ _active_filters' = _active_filters
          /\ [r \in 1..Len(rows') |-> rows'[r].hidden] = [r \in 1..Len(rows) |-> rows[r].hidden]
          /\ header'.active = header.active
          /\ store' = store
          /\ \A i \in 1..Len(log') : log'[i].signal \notin {"filter_changed", "rows_filtered"}]_vars

\* an event without a column_key arrived while a filter hides a row: nothing moved
C29_Witness ==
    /\ last = "filter_applied:ignored"
    /\ args.filter_data.column_key = "absent"
    /\ args.filter_data.all_selected = "False"
    /\ DOMAIN _active_filters # {}
    /\ \E r \in 1..Len(rows) : rows[r].hidden
    /\ log = <<>>

\* the positions of a signal, or of a write of a settings key, in a log
SignalAt(entries, signal) == {i \in 1..Len(entries) : entries[i].signal = signal}
WriteAt(entries, suffix) ==
    {i \in 1..Len(entries) : entries[i].signal = "setValue" /\ entries[i].key = suffix}

\* a step that is a filter mutation
FilterMutation ==
    last' \in {"filter_applied", "filter_applied:cleared", "filter_cleared",
               "clear_all_filters"}

\* C30: every filter mutation (apply of a non-trivial filter, clear of one column,
\* clear-all) emits filter_changed exactly once, carrying the resulting
\* active-filter map, and only after the rows have been filtered and the filters
\* have been persisted; an apply of a no-op filter emits it once, as a clear.
C30_FilterChangedOnceAtEnd ==
    [][FilterMutation =>
        /\ Cardinality(SignalAt(log', "filter_changed")) = 1
        /\ Len(log') \in SignalAt(log', "filter_changed")
        /\ log'[Len(log')].filters = <<_active_filters'>>
        /\ Cardinality(WriteAt(log', "filters")) = 1
        /\ \A i \in WriteAt(log', "filters") : i < Len(log')
        /\ store'[<<"table", TableId, user_id, "filters">>] = <<_active_filters'>>
        /\ last' # "clear_all_filters" =>
                /\ Cardinality(SignalAt(log', "rows_filtered")) = 1
                /\ \A i \in SignalAt(log', "rows_filtered") : i < Len(log')
        /\ server_side_mode # "True" =>
                rows' = _apply_filters(rows, _active_filters', server_side_mode).rows
        /\ last' = "filter_applied:cleared" =>
                /\ popup.column_key \notin DOMAIN _active_filters'
                /\ \A k \in DOMAIN _active_filters' : _active_filters'[k] = _active_filters[k]]_vars

\* a no-op filter was applied to a column that had a filter while the other column
\* keeps one that hides a row: one filter_changed, after rows_filtered and the write
C30_Witness ==
    /\ last = "filter_applied:cleared"
    /\ Len(log) = 3
    /\ log[1].signal = "rows_filtered"
    /\ log[2] = setValue("filters")
    /\ log[3] = filter_changed(_active_filters)
    /\ DOMAIN _active_filters # {}
    /\ \E r \in 1..Len(rows) : rows[r].hidden

====
